---- MODULE Spec2Model ----
(***************************************************************************)
(* hx: a hex editor.  The byte buffer with its undo/redo log               *)
(* (src/buffer/document.rs) and the edit controller with its modal input   *)
(* automaton (src/app/state.rs, src/app/mod.rs).                           *)
(*                                                                         *)
(* Conventions.  Offsets are 0-based as in the source; a byte sequence is  *)
(* a TLA+ sequence, so the byte at offset p is data[p + 1].  Option<T> is  *)
(* <<>> (None) or <<v>> (Some(v)).  A char is its Unicode scalar value, a  *)
(* String the sequence of its chars; Ch("a") is the char written 'a'.      *)
(***************************************************************************)
EXTENDS Integers, Sequences, FiniteSets, TLC

VARIABLES
    \* ---- App (src/app/state.rs:62-111)
    document,           \* Document: [path, data, modified, readonly, undo_stack, redo_stack]
    cursor,             \* usize
    offset,             \* usize, first displayed byte
    hex_mode,           \* bool
    edit_mode,          \* "Overwrite" | "Insert"
    encoding,           \* CharEncoding
    input_state,        \* <<"Normal">> | <<"HexFirstDigit", d>>
    prefix_key,         \* "None" | "CtrlX"
    selection,          \* Option<(usize, usize)>
    selection_start,    \* Option<usize>
    should_quit,        \* bool
    status_message,     \* Option<message>
    search_mode,        \* bool
    search_query,       \* String
    last_search_query,  \* String
    search_start_pos,   \* usize
    replace_mode,       \* "Off" | "EnteringSearch" | "EnteringReplace" | "Confirming"
    replace_with,       \* String
    prompt_mode,        \* "Off" | "GotoAddress" | "OpenFile" | "SaveAs" | "Command" | "CommandArg"
    prompt_input,       \* String
    confirm_mode,       \* <<"Off">> | <<"Quit">> | <<"OpenFile", path>> | <<"KillBuffer">>
    current_command,    \* String (as a command name)
    \* ---- the caller of the Document API: its last call and what it kept
    call,               \* the last call made and its return value
    pre,                \* the Document as it was before the last call
    phase,              \* where a call sequence under observation stands
    mark,               \* the Document as it was when the observed sequence began
    n_seq,              \* mutating calls made in the observed sequence
    n_rec,              \* how many of them recorded an operation
    n_undo,             \* undo() calls made after them
    n_redo              \* redo() calls made after those

appVars == <<cursor, offset, hex_mode, edit_mode, encoding, input_state, prefix_key,
             selection, selection_start, should_quit, status_message,
             search_mode, search_query, last_search_query, search_start_pos,
             replace_mode, replace_with, prompt_mode, prompt_input,
             confirm_mode, current_command>>

callerVars == <<call, pre, phase, mark, n_seq, n_rec, n_undo, n_redo>>

vars == <<document, appVars, callerVars>>

----------------------------------------------------------------------------
(* Bounds of the model *)

\* longest byte buffer explored
MaxLen == 2

\* most operations recorded in the undo and redo logs together
MaxHist == 2

\* most calls of one observed call sequence
MaxSeq == 2

----------------------------------------------------------------------------
(* Helpers: Option, usize arithmetic, Vec<u8> *)

None == <<>>

Some(v) == <<v>>

Min(a, b) == IF a <= b THEN a ELSE b

\* usize::saturating_sub
saturating_sub(a, b) == IF a >= b THEN a - b ELSE 0

\* Vec::insert(pos, value), 0-based, pos <= len
VecInsert(s, pos, value) ==
    SubSeq(s, 1, pos) \o <<value>> \o SubSeq(s, pos + 1, Len(s))

\* Vec::remove(pos), 0-based, pos < len
VecRemove(s, pos) ==
    SubSeq(s, 1, pos) \o SubSeq(s, pos + 2, Len(s))

\* data[pos] = value, 0-based, pos < len
VecSet(s, pos, value) == [s EXCEPT ![pos + 1] = value]

\* Vec::pop
VecPop(s) == SubSeq(s, 1, Len(s) - 1)

VecLast(s) == s[Len(s)]

----------------------------------------------------------------------------
(* Document (src/buffer/document.rs) *)

\* the bytes the callers of the model hand to the buffer
ArgBytes == {0, 65}

\* Option<PathBuf>: no path
NoPath == None

Document_new ==
    [path |-> NoPath, data |-> <<>>, modified |-> FALSE, readonly |-> FALSE,
     undo_stack |-> <<>>, redo_stack |-> <<>>]

Document_from_bytes(bytes) ==
    [path |-> NoPath, data |-> bytes, modified |-> FALSE, readonly |-> FALSE,
     undo_stack |-> <<>>, redo_stack |-> <<>>]

\* Document::open on a file that holds `bytes`
Document_open(p, bytes) ==
    [path |-> p, data |-> bytes, modified |-> FALSE, readonly |-> FALSE,
     undo_stack |-> <<>>, redo_stack |-> <<>>]

Document_len(d) == Len(d.data)

Document_get(d, pos) ==
    IF pos < Len(d.data) THEN Some(d.data[pos + 1]) ELSE None

Document_get_range(d, start, end) ==
    IF start <= end /\ end <= Len(d.data)
    THEN Some(SubSeq(d.data, start + 1, end))
    ELSE None

\* Each mutating operation yields the Document after it and what it returns.
\* io_ok: whether creating and writing the file succeeds.
Document_save(d, io_ok) ==
    IF d.path # NoPath /\ io_ok
    THEN [doc |-> [d EXCEPT !.modified = FALSE], res |-> <<"Ok">>]
    ELSE [doc |-> d, res |-> <<"Io">>]

Document_save_as(d, p, io_ok) ==
    Document_save([d EXCEPT !.path = p], io_ok)

Document_set_changed(d, pos, value) ==
    [d EXCEPT !.data = VecSet(d.data, pos, value),
              !.modified = TRUE,
              !.undo_stack = Append(d.undo_stack, <<"Set", pos, d.data[pos + 1], value>>),
              !.redo_stack = <<>>]

\* set() that records the operation even when the byte does not change
Document_set_always_records(d, pos, value) ==
    IF pos < Len(d.data)
    THEN [doc |-> Document_set_changed(d, pos, value), res |-> <<"Ok">>]
    ELSE [doc |-> d, res |-> <<"OutOfBounds", pos>>]

Document_set(d, pos, value) ==
    IF pos < Len(d.data)
    THEN [doc |-> IF d.data[pos + 1] # value
                  THEN Document_set_changed(d, pos, value)
                  ELSE d,
          res |-> <<"Ok">>]
    ELSE [doc |-> d, res |-> <<"OutOfBounds", pos>>]

\* insert() that clamps a position beyond the end to the end
Document_insert_clamped(d, pos, value) ==
    LET at == Min(pos, Len(d.data)) IN
    [doc |-> [d EXCEPT !.data = VecInsert(d.data, at, value),
                       !.modified = TRUE,
                       !.undo_stack = Append(d.undo_stack, <<"Insert", at, value>>),
                       !.redo_stack = <<>>],
     res |-> <<"Ok">>]

Document_insert(d, pos, value) ==
    IF pos <= Len(d.data)
    THEN [doc |-> [d EXCEPT !.data = VecInsert(d.data, pos, value),
                            !.modified = TRUE,
                            !.undo_stack = Append(d.undo_stack, <<"Insert", pos, value>>),
                            !.redo_stack = <<>>],
          res |-> <<"Ok">>]
    ELSE [doc |-> d, res |-> <<"OutOfBounds", pos>>]

\* a delete that leaves the redo log standing
Document_delete_keeps_redo(d, pos) ==
    IF pos < Len(d.data)
    THEN [doc |-> [d EXCEPT !.data = VecRemove(d.data, pos),
                            !.modified = TRUE,
                            !.undo_stack = Append(d.undo_stack, <<"Delete", pos, d.data[pos + 1]>>)],
          res |-> <<"Ok", d.data[pos + 1]>>]
    ELSE [doc |-> d, res |-> <<"OutOfBounds", pos>>]

Document_delete(d, pos) ==
    IF pos < Len(d.data)
    THEN [doc |-> [d EXCEPT !.data = VecRemove(d.data, pos),
                            !.modified = TRUE,
                            !.undo_stack = Append(d.undo_stack, <<"Delete", pos, d.data[pos + 1]>>),
                            !.redo_stack = <<>>],
          res |-> <<"Ok", d.data[pos + 1]>>]
    ELSE [doc |-> d, res |-> <<"OutOfBounds", pos>>]

\* the match of undo(): the bytes after the inverse of op is applied
UndoData(data, op) ==
    CASE op[1] = "Set"    -> VecSet(data, op[2], op[3])
      [] op[1] = "Insert" -> VecRemove(data, op[2])
      [] op[1] = "Delete" -> VecInsert(data, op[2], op[3])

\* the match of undo(): the offset returned, given the bytes after the undo
UndoPos(data, op) ==
    CASE op[1] = "Set"    -> op[2]
      [] op[1] = "Insert" -> Min(saturating_sub(op[2], 1), saturating_sub(Len(data), 1))
      [] op[1] = "Delete" -> op[2]

\* an undo() that always leaves the buffer marked as changed
UndoModified_always(undo_stack) == TRUE

\* modified after undo(), from the undo stack that is left
UndoModified(undo_stack) == undo_stack # <<>>

\* an undo() that takes back two operations at a time
Document_undo_pair(d) ==
    IF d.undo_stack = <<>>
    THEN [doc |-> d, res |-> None]
    ELSE LET op    == VecLast(d.undo_stack)
             rest  == VecPop(d.undo_stack)
             data  == UndoData(d.data, op)
             op2   == VecLast(rest)
             data2 == IF rest = <<>> THEN data ELSE UndoData(data, op2)
             rest2 == IF rest = <<>> THEN rest ELSE VecPop(rest)
             redo2 == IF rest = <<>> THEN Append(d.redo_stack, op)
                      ELSE Append(Append(d.redo_stack, op), op2)
         IN  [doc |-> [d EXCEPT !.data = data2,
                                !.undo_stack = rest2,
                                !.redo_stack = redo2,
                                !.modified = UndoModified(rest2)],
              res |-> Some(UndoPos(data, op))]

Document_undo(d) ==
    IF d.undo_stack = <<>>
    THEN [doc |-> d, res |-> None]
    ELSE LET op   == VecLast(d.undo_stack)
             rest == VecPop(d.undo_stack)
             data == UndoData(d.data, op)
         IN  [doc |-> [d EXCEPT !.data = data,
                                !.undo_stack = rest,
                                !.redo_stack = Append(d.redo_stack, op),
                                !.modified = UndoModified(rest)],
              res |-> Some(UndoPos(data, op))]

\* redo() that writes a Set's old byte instead of its new one
RedoData_writes_old(data, op) ==
    CASE op[1] = "Set"    -> VecSet(data, op[2], op[3])
      [] op[1] = "Insert" -> VecInsert(data, op[2], op[3])
      [] op[1] = "Delete" -> VecRemove(data, op[2])

\* the match of redo(): the bytes after op is applied again
RedoData(data, op) ==
    CASE op[1] = "Set"    -> VecSet(data, op[2], op[4])
      [] op[1] = "Insert" -> VecInsert(data, op[2], op[3])
      [] op[1] = "Delete" -> VecRemove(data, op[2])

RedoPos(data, op) ==
    CASE op[1] = "Set"    -> op[2]
      [] op[1] = "Insert" -> op[2]
      [] op[1] = "Delete" -> Min(op[2], saturating_sub(Len(data), 1))

Document_redo(d) ==
    IF d.redo_stack = <<>>
    THEN [doc |-> d, res |-> None]
    ELSE LET op   == VecLast(d.redo_stack)
             data == RedoData(d.data, op)
         IN  [doc |-> [d EXCEPT !.data = data,
                                !.redo_stack = VecPop(d.redo_stack),
                                !.undo_stack = Append(d.undo_stack, op),
                                !.modified = TRUE],
              res |-> Some(RedoPos(data, op))]

Document_is_modified(d) == d.modified

----------------------------------------------------------------------------
(* Characters and strings *)

\* the printable ASCII characters in code order, from U+0020 (the double
\* quote, the backslash and the backtick by name)
AsciiPrintable ==
    <<" ", "!", "dquote", "#", "$", "%", "&", "'", "(", ")", "*", "+", ",", "-", ".", "/",
      "0", "1", "2", "3", "4", "5", "6", "7", "8", "9", ":", ";", "<", "=", ">", "?",
      "@", "A", "B", "C", "D", "E", "F", "G", "H", "I", "J", "K", "L", "M", "N", "O",
      "P", "Q", "R", "S", "T", "U", "V", "W", "X", "Y", "Z", "[", "backslash", "]", "^", "_",
      "backtick", "a", "b", "c", "d", "e", "f", "g", "h", "i", "j", "k", "l", "m", "n", "o",
      "p", "q", "r", "s", "t", "u", "v", "w", "x", "y", "z", "{", "|", "}", "~">>

\* the code of each printable ASCII character
CodeOf ==
    [s \in {AsciiPrintable[i] : i \in 1..Len(AsciiPrintable)} |->
        31 + CHOOSE i \in 1..Len(AsciiPrintable) : AsciiPrintable[i] = s]

\* the char written as the one-character string s
Ch(s) == CodeOf[s]

\* the String written as the sequence of one-character strings t
Str(t) == [i \in 1..Len(t) |-> Ch(t[i])]

\* the full-width form (U+FF01..U+FF5E) of a printable ASCII char
FullWidth(c) == c - 32 + 65280

\* char::is_whitespace
is_whitespace(c) ==
    \/ c \in 9..13
    \/ c \in {32, 133, 160, 5760, 8232, 8233, 8239, 8287, 12288}
    \/ c \in 8192..8202

\* str::trim: the String without its leading and trailing whitespace
RECURSIVE trim_start(_)
trim_start(t) ==
    IF t # <<>> /\ is_whitespace(t[1]) THEN trim_start(Tail(t)) ELSE t

RECURSIVE trim_end(_)
trim_end(t) ==
    IF t # <<>> /\ is_whitespace(t[Len(t)]) THEN trim_end(VecPop(t)) ELSE t

trim(t) == trim_end(trim_start(t))

\* char::encode_utf8
encode_utf8(c) ==
    IF c < 128 THEN <<c>>
    ELSE IF c < 2048 THEN <<192 + (c \div 64), 128 + (c % 64)>>
    ELSE IF c < 65536
         THEN <<224 + (c \div 4096), 128 + ((c \div 64) % 64), 128 + (c % 64)>>
         ELSE <<240 + (c \div 262144), 128 + ((c \div 4096) % 64),
                128 + ((c \div 64) % 64), 128 + (c % 64)>>

\* str::as_bytes: the UTF-8 bytes of a String
RECURSIVE as_bytes(_)
as_bytes(t) ==
    IF t = <<>> THEN <<>> ELSE encode_utf8(t[1]) \o as_bytes(Tail(t))

\* char::to_ascii_uppercase
to_ascii_uppercase(c) == IF c \in 97..122 THEN c - 32 ELSE c

\* char::to_ascii_lowercase, applied by str::to_lowercase to ASCII text
to_ascii_lowercase(c) == IF c \in 65..90 THEN c + 32 ELSE c

to_lowercase(t) ==
    [i \in 1..Len(t) |->
        IF t[i] \in FullWidth(65)..FullWidth(90) THEN t[i] + 32
        ELSE to_ascii_lowercase(t[i])]

\* char::is_ascii_hexdigit
is_ascii_hexdigit(c) == c \in 48..57 \/ c \in 65..70 \/ c \in 97..102

\* char::is_ascii_alphabetic
is_ascii_alphabetic(c) == c \in 65..90 \/ c \in 97..122

\* char::to_digit(16): Option<u32>
to_digit16(c) ==
    IF c \in 48..57 THEN Some(c - 48)
    ELSE IF c \in 65..70 THEN Some(c - 55)
    ELSE IF c \in 97..102 THEN Some(c - 87)
    ELSE None

----------------------------------------------------------------------------
(* Hex text (src/app/state.rs:144-154, 315-353, 668-714) *)

\* App::normalize_fullwidth
normalize_fullwidth(c) ==
    IF c >= 65281 /\ c <= 65374 THEN c - 65280 + 32
    ELSE IF c = 12288 THEN 32
    ELSE c

\* App::normalize_hex_char: Option<char>
normalize_hex_char(c) ==
    IF c \in 48..57 THEN Some(c)
    ELSE IF c \in 65..70 THEN Some(c)
    ELSE IF c \in 97..102 THEN Some(to_ascii_uppercase(c))
    ELSE IF c \in 65296..65305 THEN Some(c - 65296 + 48)
    ELSE IF c \in 65313..65318 THEN Some(c - 65313 + 65)
    ELSE IF c \in 65345..65350 THEN Some(c - 65345 + 65)
    ELSE None

\* the characters normalize_hex_string skips before normalizing the rest:
\* space , { } \n \r \t, and x X and their full-width forms
IsHexSeparator(c) ==
    \/ c \in {32, 44, 123, 125, 10, 13, 9}
    \/ c \in {120, 88, 65368, 65336}

\* App::normalize_hex_string: filter_map keeps what normalize_hex_char yields
RECURSIVE normalize_hex_string(_)
normalize_hex_string(t) ==
    IF t = <<>> THEN <<>>
    ELSE IF IsHexSeparator(t[1]) THEN normalize_hex_string(Tail(t))
    ELSE normalize_hex_char(t[1]) \o normalize_hex_string(Tail(t))

AllChars(t, P(_)) == \A i \in 1..Len(t) : P(t[i])

\* App::looks_like_hex
looks_like_hex(t) ==
    IF t = <<>> THEN FALSE
    ELSE LET normalized == normalize_hex_string(t) IN
         /\ Len(normalized) % 2 = 0
         /\ Len(normalized) >= 2
         /\ AllChars(normalized, is_ascii_hexdigit)

\* the bytes of the digit pairs of a normalized string of even length
RECURSIVE HexPairs(_)
HexPairs(n) ==
    IF n = <<>> THEN <<>>
    ELSE <<(to_digit16(n[1])[1] * 16) + to_digit16(n[2])[1]>> \o HexPairs(SubSeq(n, 3, Len(n)))

\* App::normalized_hex_to_bytes: Option<Vec<u8>>
normalized_hex_to_bytes(t) ==
    LET normalized == normalize_hex_string(t) IN
    IF Len(normalized) % 2 # 0 THEN None
    ELSE IF \E i \in 1..Len(normalized) : to_digit16(normalized[i]) = None THEN None
    ELSE Some(HexPairs(normalized))

----------------------------------------------------------------------------
(* Pattern search (src/app/state.rs:648-666) *)

Window(data, p, n) == SubSeq(data, p + 1, p + n)

\* a find_pattern that searches from the start of the data
find_pattern_from_zero(data, pattern, start) ==
    IF pattern = <<>> \/ start + Len(pattern) > Len(data) THEN None
    ELSE LET hits == {p \in 0..(Len(data) - Len(pattern)) :
                          Window(data, p, Len(pattern)) = pattern}
         IN  IF hits = {} THEN None
             ELSE Some(CHOOSE p \in hits : \A q \in hits : p <= q)

\* App::find_pattern: Option<usize>
find_pattern(data, pattern, start) ==
    IF pattern = <<>> \/ start + Len(pattern) > Len(data) THEN None
    ELSE LET hits == {p \in start..(Len(data) - Len(pattern)) :
                          Window(data, p, Len(pattern)) = pattern}
         IN  IF hits = {} THEN None
             ELSE Some(CHOOSE p \in hits : \A q \in hits : p <= q)

\* a find_pattern_reverse that finds every occurrence starting before end
find_pattern_reverse_starting_before(data, pattern, end) ==
    IF pattern = <<>> \/ end = 0 THEN None
    ELSE LET hits == {p \in 0..(Len(data) - Len(pattern)) :
                          p < end /\ Window(data, p, Len(pattern)) = pattern}
         IN  IF hits = {} THEN None
             ELSE Some(CHOOSE p \in hits : \A q \in hits : p >= q)

\* App::find_pattern_reverse: Option<usize>
find_pattern_reverse(data, pattern, end) ==
    IF pattern = <<>> \/ end = 0 THEN None
    ELSE LET search_end == Min(end, Len(data)) IN
         IF search_end < Len(pattern) THEN None
         ELSE LET hits == {p \in 0..(search_end - Len(pattern)) :
                               Window(data, p, Len(pattern)) = pattern}
              IN  IF hits = {} THEN None
                  ELSE Some(CHOOSE p \in hits : \A q \in hits : p >= q)

----------------------------------------------------------------------------
(* App::new (src/app/state.rs:115-142) *)

InitApp ==
    /\ cursor = 0
    /\ offset = 0
    /\ hex_mode = TRUE
    /\ edit_mode = "Overwrite"
    /\ encoding = "Utf8"
    /\ input_state = <<"Normal">>
    /\ prefix_key = "None"
    /\ selection = None
    /\ selection_start = None
    /\ should_quit = FALSE
    /\ status_message = None
    /\ search_mode = FALSE
    /\ search_query = <<>>
    /\ last_search_query = <<>>
    /\ search_start_pos = 0
    /\ replace_mode = "Off"
    /\ replace_with = <<>>
    /\ prompt_mode = "Off"
    /\ prompt_input = <<>>
    /\ confirm_mode = <<"Off">>
    /\ current_command = <<>>

----------------------------------------------------------------------------
(* App: the controller's state as one value, and its methods as functions  *)
(* from the state before to the state after (src/app/state.rs).            *)

\* bytes per displayed row
bytes_per_row == 16

\* displayed rows
visible_rows == 24

App ==
    [document |-> document, cursor |-> cursor, offset |-> offset,
     hex_mode |-> hex_mode, edit_mode |-> edit_mode, encoding |-> encoding,
     input_state |-> input_state,
     prefix_key |-> prefix_key, selection |-> selection,
     selection_start |-> selection_start, should_quit |-> should_quit,
     status_message |-> status_message, search_mode |-> search_mode,
     search_query |-> search_query, last_search_query |-> last_search_query,
     search_start_pos |-> search_start_pos, replace_mode |-> replace_mode,
     replace_with |-> replace_with, prompt_mode |-> prompt_mode,
     prompt_input |-> prompt_input, confirm_mode |-> confirm_mode,
     current_command |-> current_command]

\* the state after a method: every field of App
SetApp(a) ==
    /\ document' = a.document
    /\ cursor' = a.cursor
    /\ offset' = a.offset
    /\ hex_mode' = a.hex_mode
    /\ edit_mode' = a.edit_mode
    /\ encoding' = a.encoding
    /\ input_state' = a.input_state
    /\ prefix_key' = a.prefix_key
    /\ selection' = a.selection
    /\ selection_start' = a.selection_start
    /\ should_quit' = a.should_quit
    /\ status_message' = a.status_message
    /\ search_mode' = a.search_mode
    /\ search_query' = a.search_query
    /\ last_search_query' = a.last_search_query
    /\ search_start_pos' = a.search_start_pos
    /\ replace_mode' = a.replace_mode
    /\ replace_with' = a.replace_with
    /\ prompt_mode' = a.prompt_mode
    /\ prompt_input' = a.prompt_input
    /\ confirm_mode' = a.confirm_mode
    /\ current_command' = a.current_command

Msg(a, m) == [a EXCEPT !.status_message = Some(m)]

DocLen(a) == Len(a.document.data)

\* App::load_bytes
load_bytes(a, data) ==
    [a EXCEPT !.document = Document_from_bytes(data),
              !.cursor = 0, !.offset = 0, !.selection = None]

\* App::ensure_cursor_visible
ensure_cursor_visible(a) ==
    LET cursor_row == a.cursor \div bytes_per_row
        offset_row == a.offset \div bytes_per_row
    IN  IF cursor_row < offset_row
        THEN [a EXCEPT !.offset = cursor_row * bytes_per_row]
        ELSE IF cursor_row >= offset_row + visible_rows
        THEN [a EXCEPT !.offset = (cursor_row - visible_rows + 1) * bytes_per_row]
        ELSE a

\* App::cursor_up
cursor_up(a) ==
    IF a.cursor >= bytes_per_row
    THEN ensure_cursor_visible([a EXCEPT !.cursor = @ - bytes_per_row])
    ELSE a

\* App::cursor_down
cursor_down(a) ==
    LET new_pos == a.cursor + bytes_per_row IN
    IF new_pos < DocLen(a)
    THEN ensure_cursor_visible([a EXCEPT !.cursor = new_pos])
    ELSE a

\* App::cursor_left
cursor_left(a) ==
    IF a.cursor > 0
    THEN ensure_cursor_visible([a EXCEPT !.cursor = @ - 1])
    ELSE a

\* App::cursor_right
cursor_right(a) ==
    IF a.cursor < DocLen(a)
    THEN ensure_cursor_visible([a EXCEPT !.cursor = @ + 1])
    ELSE a

\* App::page_up
page_up(a) ==
    LET page_size == visible_rows * bytes_per_row IN
    [a EXCEPT !.cursor = saturating_sub(@, page_size),
              !.offset = saturating_sub(@, page_size)]

\* App::page_down
page_down(a) ==
    LET page_size == visible_rows * bytes_per_row
        max_pos   == DocLen(a)
    IN  ensure_cursor_visible(
            [a EXCEPT !.cursor = Min(@ + page_size, max_pos),
                      !.offset = Min(@ + page_size,
                                     saturating_sub(DocLen(a) \div bytes_per_row, visible_rows)
                                         * bytes_per_row)])

\* App::cursor_home
cursor_home(a) ==
    [a EXCEPT !.cursor = (a.cursor \div bytes_per_row) * bytes_per_row]

\* App::cursor_end
cursor_end(a) ==
    LET row_start == (a.cursor \div bytes_per_row) * bytes_per_row
        row_end   == Min(row_start + bytes_per_row, DocLen(a))
    IN  [a EXCEPT !.cursor = row_end]

\* a first digit that replaces the whole byte
FirstNibbleValue_drops_low_nibble(a, digit) == digit * 16

\* the first digit of input_hex in Overwrite mode: the byte written
FirstNibbleValue(a, digit) ==
    LET low_nibble == IF a.cursor < DocLen(a)
                      THEN a.document.data[a.cursor + 1] % 16
                      ELSE 0
    IN  (digit * 16) + low_nibble

\* a second digit that is dropped: the byte keeps the first digit only
SecondNibbleValue_drops_digit(first, digit) == first * 16

\* the second digit of input_hex: the byte written, (first << 4) | digit
SecondNibbleValue(first, digit) == (first * 16) + digit

\* App::input_hex
input_hex(a, ch) ==
    LET normalized == normalize_hex_char(ch)
        digit_opt  == IF normalized = None THEN None ELSE to_digit16(normalized[1])
    IN
    IF digit_opt = None THEN a
    ELSE LET digit == digit_opt[1] IN
         IF a.input_state = <<"Normal">>
         THEN LET doc ==
                    IF a.edit_mode = "Overwrite"
                    THEN IF a.cursor < DocLen(a)
                         THEN Document_set(a.document, a.cursor, FirstNibbleValue(a, digit)).doc
                         ELSE Document_insert(a.document, a.cursor, FirstNibbleValue(a, digit)).doc
                    ELSE Document_insert(a.document, a.cursor, digit * 16).doc
              IN  [a EXCEPT !.document = doc,
                            !.input_state = <<"HexFirstDigit", digit>>]
         ELSE LET first == a.input_state[2]
                  value == SecondNibbleValue(first, digit)
                  doc   == Document_set(a.document, a.cursor, value).doc
              IN  [cursor_right([a EXCEPT !.document = doc])
                      EXCEPT !.input_state = <<"Normal">>]

\* for (i, &byte) in bytes: set(at + i) inside the buffer, insert(at + i) beyond
RECURSIVE OverwriteBytes(_, _, _, _)
OverwriteBytes(d, at, bytes, i) ==
    IF i > Len(bytes) THEN d
    ELSE LET pos == at + (i - 1) IN
         OverwriteBytes(IF pos < Len(d.data)
                        THEN Document_set(d, pos, bytes[i]).doc
                        ELSE Document_insert(d, pos, bytes[i]).doc,
                        at, bytes, i + 1)

\* for (i, &byte) in bytes: insert(at + i, byte)
RECURSIVE InsertBytes(_, _, _, _)
InsertBytes(d, at, bytes, i) ==
    IF i > Len(bytes) THEN d
    ELSE InsertBytes(Document_insert(d, at + (i - 1), bytes[i]).doc, at, bytes, i + 1)

\* for i in (start..=end).rev(): delete(i), from i down to start
RECURSIVE DeleteRangeRev(_, _, _)
DeleteRangeRev(d, start, i) ==
    IF i < start THEN d
    ELSE DeleteRangeRev(Document_delete(d, i).doc, start, i - 1)

\* cursor_right() n times
RECURSIVE CursorRightTimes(_, _)
CursorRightTimes(a, n) ==
    IF n = 0 THEN a ELSE CursorRightTimes(cursor_right(a), n - 1)

\* CharEncoding: UTF-8, which App::new selects, and a single-byte encoding
\* that stands for the encodings in which some characters have no bytes
CharEncodings == <<"Utf8", "SingleByte">>

\* CharEncoding::next: the encoding after `encoding`, cyclically
CharEncoding_next(enc) ==
    LET i == CHOOSE k \in 1..Len(CharEncodings) : CharEncodings[k] = enc
    IN  CharEncodings[(i % Len(CharEncodings)) + 1]

\* encoding::encode_char: every character has bytes in UTF-8; in the
\* single-byte encoding only the characters below 0x80 have, themselves
encode_char(ch, enc) ==
    IF enc = "Utf8" THEN Some(encode_utf8(ch))
    ELSE IF ch < 128 THEN Some(<<ch>>)
    ELSE None

\* an input_ascii that writes '?' for a character without bytes
input_ascii_writes_substitute(a, ch) ==
    LET encoded == encode_char(ch, a.encoding)
        bytes   == IF encoded = None THEN <<63>> ELSE encoded[1]
        doc     == IF a.edit_mode = "Overwrite"
                   THEN OverwriteBytes(a.document, a.cursor, bytes, 1)
                   ELSE InsertBytes(a.document, a.cursor, bytes, 1)
    IN  IF bytes = <<>> THEN a
        ELSE CursorRightTimes([a EXCEPT !.document = doc], Len(bytes))

\* App::input_ascii
input_ascii(a, ch) ==
    LET encoded == encode_char(ch, a.encoding) IN
    IF encoded = None THEN Msg(a, <<"Cannot encode", ch, a.encoding>>)
    ELSE LET bytes == encoded[1] IN
         IF bytes = <<>> THEN a
         ELSE LET doc == IF a.edit_mode = "Overwrite"
                         THEN OverwriteBytes(a.document, a.cursor, bytes, 1)
                         ELSE InsertBytes(a.document, a.cursor, bytes, 1)
              IN  CursorRightTimes([a EXCEPT !.document = doc], Len(bytes))

\* App::start_selection
start_selection(a) ==
    Msg([a EXCEPT !.selection_start = Some(a.cursor),
                  !.selection = Some(<<a.cursor, a.cursor>>)],
        <<"Mark set">>)

\* App::clear_selection
clear_selection(a) ==
    [a EXCEPT !.selection_start = None, !.selection = None]

\* an update_selection that always puts the anchor first
update_selection_anchor_first(a) ==
    IF a.selection_start # None
    THEN [a EXCEPT !.selection = Some(<<a.selection_start[1], a.cursor>>)]
    ELSE a

\* App::update_selection
update_selection(a) ==
    IF a.selection_start # None
    THEN LET start == a.selection_start[1] IN
         [a EXCEPT !.selection = IF start <= a.cursor
                                 THEN Some(<<start, a.cursor>>)
                                 ELSE Some(<<a.cursor, start>>)]
    ELSE a

\* select_up, select_down, select_left, select_right: the anchor, the move,
\* the selection
SelectMove(a, move(_)) ==
    LET anchored == IF a.selection_start = None
                    THEN [a EXCEPT !.selection_start = Some(a.cursor)]
                    ELSE a
    IN  update_selection(move(anchored))

\* App::copy (what reaches the clipboard is not part of the state)
copy(a) ==
    IF a.selection # None
    THEN LET start == a.selection[1][1]
             end   == a.selection[1][2]
         IN  IF Document_get_range(a.document, start, end + 1) # None
             THEN clear_selection(Msg(a, <<"Copied bytes", end - start + 1>>))
             ELSE a
    ELSE Msg(a, <<"No selection">>)

\* App::copy_hex
copy_hex(a) ==
    IF a.selection # None
    THEN LET start == a.selection[1][1]
             end   == a.selection[1][2]
         IN  IF Document_get_range(a.document, start, end + 1) # None
             THEN clear_selection(Msg(a, <<"Copied as HEX">>))
             ELSE a
    ELSE a

\* App::cut
cut(a) ==
    IF a.selection # None
    THEN LET start == a.selection[1][1]
             end   == a.selection[1][2]
         IN  IF Document_get_range(a.document, start, end + 1) # None
             THEN clear_selection(
                      Msg([a EXCEPT !.document = DeleteRangeRev(a.document, start, end),
                                    !.cursor = start],
                          <<"Cut bytes", end - start + 1>>))
             ELSE a
    ELSE Msg(a, <<"No selection">>)

\* the bytes paste_from_terminal reads from the pasted content
PasteBytes(content) ==
    LET trimmed == trim(content) IN
    IF looks_like_hex(trimmed)
    THEN LET b == normalized_hex_to_bytes(trimmed) IN
         IF b # None THEN b[1] ELSE as_bytes(content)
    ELSE as_bytes(content)

\* App::paste_from_terminal
paste_from_terminal(a, content) ==
    LET bytes == PasteBytes(content) IN
    IF bytes = <<>> THEN a
    ELSE LET a1 == IF a.selection # None
                   THEN clear_selection(
                            [a EXCEPT !.document = DeleteRangeRev(a.document,
                                                                  a.selection[1][1],
                                                                  a.selection[1][2]),
                                      !.cursor = a.selection[1][1]])
                   ELSE a
             doc == IF a1.edit_mode = "Overwrite"
                    THEN OverwriteBytes(a1.document, a1.cursor, bytes, 1)
                    ELSE InsertBytes(a1.document, a1.cursor, bytes, 1)
         IN  Msg(ensure_cursor_visible([a1 EXCEPT !.document = doc,
                                                  !.cursor = @ + Len(bytes)]),
                 <<"Pasted bytes", Len(bytes)>>)

\* App::paste; clipboard: Option<String>, what the system clipboard holds
paste(a, clipboard) ==
    IF clipboard = None
    THEN Msg(a, <<"Clipboard empty or unavailable">>)
    ELSE paste_from_terminal(a, clipboard[1])

\* a search_query_to_bytes that reads a literal query without the blanks
\* around it
search_query_to_bytes_trims_literal(a) ==
    LET trimmed == trim(a.search_query) IN
    IF looks_like_hex(trimmed)
    THEN LET b == normalized_hex_to_bytes(trimmed) IN
         IF b # None THEN b[1] ELSE as_bytes(trimmed)
    ELSE as_bytes(trimmed)

\* App::search_query_to_bytes
search_query_to_bytes(a) ==
    LET trimmed == trim(a.search_query) IN
    IF looks_like_hex(trimmed)
    THEN LET b == normalized_hex_to_bytes(trimmed) IN
         IF b # None THEN b[1] ELSE as_bytes(a.search_query)
    ELSE as_bytes(a.search_query)

\* a replace_with_to_bytes that never reads the replacement as hex
replace_with_to_bytes_literal(a) == as_bytes(a.replace_with)

\* App::replace_with_to_bytes
replace_with_to_bytes(a) ==
    LET trimmed == trim(a.replace_with) IN
    IF looks_like_hex(trimmed)
    THEN LET b == normalized_hex_to_bytes(trimmed) IN
         IF b # None THEN b[1] ELSE as_bytes(a.replace_with)
    ELSE as_bytes(a.replace_with)

\* a find_next that starts at the cursor
find_next_from_cursor(a) ==
    LET pattern == search_query_to_bytes(a)
        data    == a.document.data
        start   == a.cursor
        fwd     == find_pattern(data, pattern, start)
        wrap    == find_pattern(data, pattern, 0)
    IN  IF pattern = <<>> THEN a
        ELSE IF fwd # None
        THEN Msg(ensure_cursor_visible([a EXCEPT !.cursor = fwd[1]]), <<"Found at", fwd[1]>>)
        ELSE IF wrap # None /\ wrap[1] < start
        THEN Msg(ensure_cursor_visible([a EXCEPT !.cursor = wrap[1]]),
                 <<"Wrapped, found at", wrap[1]>>)
        ELSE Msg(a, <<"Not found">>)

\* App::find_next
find_next(a) ==
    LET pattern == search_query_to_bytes(a)
        data    == a.document.data
        start   == a.cursor + 1
        fwd     == find_pattern(data, pattern, start)
        wrap    == find_pattern(data, pattern, 0)
    IN  IF pattern = <<>> THEN a
        ELSE IF fwd # None
        THEN Msg(ensure_cursor_visible([a EXCEPT !.cursor = fwd[1]]), <<"Found at", fwd[1]>>)
        ELSE IF wrap # None /\ wrap[1] < start
        THEN Msg(ensure_cursor_visible([a EXCEPT !.cursor = wrap[1]]),
                 <<"Wrapped, found at", wrap[1]>>)
        ELSE Msg(a, <<"Not found">>)

\* a find_prev whose wrap-around accepts the occurrence at the cursor
find_prev_accepts_cursor(a) ==
    LET pattern == search_query_to_bytes(a)
        data    == a.document.data
        end     == a.cursor
        back    == find_pattern_reverse(data, pattern, end)
        wrap    == find_pattern_reverse(data, pattern, Len(data))
    IN  IF pattern = <<>> THEN a
        ELSE IF back # None
        THEN Msg(ensure_cursor_visible([a EXCEPT !.cursor = back[1]]), <<"Found at", back[1]>>)
        ELSE IF wrap # None /\ wrap[1] >= end
        THEN Msg(ensure_cursor_visible([a EXCEPT !.cursor = wrap[1]]),
                 <<"Wrapped, found at", wrap[1]>>)
        ELSE Msg(a, <<"Not found">>)

\* App::find_prev
find_prev(a) ==
    LET pattern == search_query_to_bytes(a)
        data    == a.document.data
        end     == a.cursor
        back    == find_pattern_reverse(data, pattern, end)
        wrap    == find_pattern_reverse(data, pattern, Len(data))
    IN  IF pattern = <<>> THEN a
        ELSE IF back # None
        THEN Msg(ensure_cursor_visible([a EXCEPT !.cursor = back[1]]), <<"Found at", back[1]>>)
        ELSE IF wrap # None /\ wrap[1] > end
        THEN Msg(ensure_cursor_visible([a EXCEPT !.cursor = wrap[1]]),
                 <<"Wrapped, found at", wrap[1]>>)
        ELSE Msg(a, <<"Not found">>)

\* a do_incremental_search that does not start again from offset 0
do_incremental_search_no_wrap(a) ==
    LET pattern == search_query_to_bytes(a)
        fwd     == find_pattern(a.document.data, pattern, a.search_start_pos)
    IN  IF pattern = <<>> THEN a
        ELSE IF fwd # None THEN ensure_cursor_visible([a EXCEPT !.cursor = fwd[1]])
        ELSE a

\* App::do_incremental_search
do_incremental_search(a) ==
    LET pattern == search_query_to_bytes(a)
        data    == a.document.data
        fwd     == find_pattern(data, pattern, a.search_start_pos)
        wrap    == find_pattern(data, pattern, 0)
    IN  IF pattern = <<>> THEN a
        ELSE IF fwd # None THEN ensure_cursor_visible([a EXCEPT !.cursor = fwd[1]])
        ELSE IF wrap # None THEN ensure_cursor_visible([a EXCEPT !.cursor = wrap[1]])
        ELSE a

\* a find_next_for_replace that starts again from offset 0
find_next_for_replace_wraps(a) ==
    LET pattern == search_query_to_bytes(a)
        fwd     == find_pattern(a.document.data, pattern, a.cursor)
        found   == IF fwd # None THEN fwd ELSE find_pattern(a.document.data, pattern, 0)
    IN  IF pattern = <<>> THEN [a EXCEPT !.replace_mode = "Off"]
        ELSE IF found # None
        THEN Msg(ensure_cursor_visible([a EXCEPT !.cursor = found[1]]),
                 <<"Replace? (y/n/!/q) at", found[1]>>)
        ELSE Msg([a EXCEPT !.replace_mode = "Off"], <<"No more matches">>)

\* App::find_next_for_replace
find_next_for_replace(a) ==
    LET pattern == search_query_to_bytes(a)
        start   == a.cursor
        found   == find_pattern(a.document.data, pattern, start)
    IN  IF pattern = <<>> THEN [a EXCEPT !.replace_mode = "Off"]
        ELSE IF found # None
        THEN Msg(ensure_cursor_visible([a EXCEPT !.cursor = found[1]]),
                 <<"Replace? (y/n/!/q) at", found[1]>>)
        ELSE Msg([a EXCEPT !.replace_mode = "Off"], <<"No more matches">>)

\* a do_replace_current that moves the cursor by the length of the pattern
do_replace_current_advances_by_pattern(a) ==
    LET from_bytes == search_query_to_bytes(a)
        to_bytes   == replace_with_to_bytes(a)
        n          == Len(from_bytes)
    IN  IF from_bytes = <<>> THEN a
        ELSE IF Document_get_range(a.document, a.cursor, a.cursor + n) = Some(from_bytes)
        THEN LET removed == DeleteRangeRev(a.document, a.cursor, a.cursor + n - 1) IN
             [a EXCEPT !.document = InsertBytes(removed, a.cursor, to_bytes, 1),
                       !.cursor = @ + n]
        ELSE a

\* App::do_replace_current
do_replace_current(a) ==
    LET from_bytes == search_query_to_bytes(a)
        to_bytes   == replace_with_to_bytes(a)
        n          == Len(from_bytes)
    IN  IF from_bytes = <<>> THEN a
        ELSE IF Document_get_range(a.document, a.cursor, a.cursor + n) = Some(from_bytes)
        THEN LET removed == DeleteRangeRev(a.document, a.cursor, a.cursor + n - 1) IN
             [a EXCEPT !.document = InsertBytes(removed, a.cursor, to_bytes, 1),
                       !.cursor = @ + Len(to_bytes)]
        ELSE a

\* the loop of do_replace_all_remaining: the state and the count when it breaks
RECURSIVE ReplaceAllLoop(_, _)
ReplaceAllLoop(a, count) ==
    LET from_bytes == search_query_to_bytes(a)
        found      == find_pattern(a.document.data, from_bytes, a.cursor)
    IN  IF from_bytes = <<>> \/ found = None
        THEN <<a, count>>
        ELSE ReplaceAllLoop(do_replace_current([a EXCEPT !.cursor = found[1]]), count + 1)

\* a do_replace_all_remaining that stops after the first replacement
do_replace_all_remaining_once(a) ==
    LET from_bytes == search_query_to_bytes(a)
        found      == find_pattern(a.document.data, from_bytes, a.cursor)
        end        == IF from_bytes = <<>> \/ found = None
                      THEN <<a, 0>>
                      ELSE <<do_replace_current([a EXCEPT !.cursor = found[1]]), 1>>
    IN  Msg([end[1] EXCEPT !.replace_mode = "Off"], <<"Replaced occurrences", end[2]>>)

\* App::do_replace_all_remaining
do_replace_all_remaining(a) ==
    LET end == ReplaceAllLoop(a, 0) IN
    Msg([end[1] EXCEPT !.replace_mode = "Off"], <<"Replaced occurrences", end[2]>>)

\* App::do_kill_buffer
do_kill_buffer(a) ==
    Msg([a EXCEPT !.document = Document_new, !.cursor = 0, !.offset = 0,
                  !.selection = None, !.selection_start = None],
        <<"Buffer killed">>)

\* Path::file_name for the paths of the model (none ends in '/'): the text
\* after the last '/'
RECURSIVE file_name(_)
file_name(t) ==
    IF \E i \in 1..Len(t) : t[i] = Ch("/")
    THEN file_name(Tail(t))
    ELSE t

\* Document::filename
Document_filename(d) ==
    IF d.path = NoPath \/ file_name(d.path[1]) = <<>>
    THEN None
    ELSE Some(file_name(d.path[1]))

\* what the world outside answers during one step: whether writing a file
\* succeeds, the text on the system clipboard (None: unavailable), the bytes of
\* the file a path names (None: it cannot be read)
Env(io_ok, clipboard, file) == [io_ok |-> io_ok, clipboard |-> clipboard, file |-> file]

\* the arms of execute() for Save and for dispatch_command "save"
SaveAndReport(a, env) ==
    LET r == Document_save(a.document, env.io_ok) IN
    IF r.res # <<"Ok">>
    THEN Msg(a, <<"Save failed">>)
    ELSE Msg([a EXCEPT !.document = r.doc], <<"Saved">>)

\* a Quit that does not look at the modified flag
QuitArm_unguarded(a) == [a EXCEPT !.should_quit = TRUE]

\* the arm of execute() for Quit
QuitArm(a) ==
    IF Document_is_modified(a.document)
    THEN [a EXCEPT !.confirm_mode = <<"Quit">>]
    ELSE [a EXCEPT !.should_quit = TRUE]

\* App::execute, after the status message was cleared
ExecuteArm(a, action, env) ==
    LET name == action[1] IN
    CASE name = "Quit" -> QuitArm(a)
      [] name = "Save" -> SaveAndReport(a, env)
      [] name = "CursorUp" -> update_selection(cursor_up(a))
      [] name = "CursorDown" -> update_selection(cursor_down(a))
      [] name = "CursorLeft" -> update_selection(cursor_left(a))
      [] name = "CursorRight" -> update_selection(cursor_right(a))
      [] name = "CursorHome" -> update_selection(cursor_home(a))
      [] name = "CursorEnd" -> update_selection(cursor_end(a))
      [] name = "PageUp" -> update_selection(page_up(a))
      [] name = "PageDown" -> update_selection(page_down(a))
      [] name = "GotoBeginning" ->
            update_selection([a EXCEPT !.cursor = 0, !.offset = 0])
      [] name = "GotoEnd" ->
            update_selection(ensure_cursor_visible([a EXCEPT !.cursor = DocLen(a)]))
      [] name = "StartSelection" -> start_selection(a)
      [] name = "ClearSelection" -> clear_selection(a)
      [] name = "SelectUp" -> SelectMove(a, cursor_up)
      [] name = "SelectDown" -> SelectMove(a, cursor_down)
      [] name = "SelectLeft" -> SelectMove(a, cursor_left)
      [] name = "SelectRight" -> SelectMove(a, cursor_right)
      [] name = "Copy" -> copy(a)
      [] name = "CopyHex" -> copy_hex(a)
      [] name = "Cut" -> cut(a)
      [] name = "Paste" -> paste(a, env.clipboard)
      [] name = "ToggleMode" -> [a EXCEPT !.hex_mode = ~@]
      [] name = "ToggleEditMode" ->
            [a EXCEPT !.edit_mode = IF @ = "Overwrite" THEN "Insert" ELSE "Overwrite"]
      [] name = "ToggleEncoding" ->
            LET next == CharEncoding_next(a.encoding) IN
            Msg([a EXCEPT !.encoding = next], <<"Encoding", next>>)
      [] name = "InputHex" -> input_hex(a, action[2])
      [] name = "InputAscii" -> input_ascii(a, action[2])
      [] name = "EnterCtrlX" -> Msg([a EXCEPT !.prefix_key = "CtrlX"], <<"C-x-">>)
      [] name = "Cancel" ->
            Msg(clear_selection([a EXCEPT !.prefix_key = "None",
                                          !.input_state = <<"Normal">>]),
                <<"Quit">>)
      [] name = "Undo" ->
            LET r == Document_undo(a.document) IN
            IF r.res # None
            THEN Msg(ensure_cursor_visible(
                         [a EXCEPT !.document = r.doc,
                                   !.cursor = Min(r.res[1],
                                                  saturating_sub(Len(r.doc.data), 1))]),
                     <<"Undo">>)
            ELSE Msg(a, <<"Nothing to undo">>)
      [] name = "Redo" ->
            LET r == Document_redo(a.document) IN
            IF r.res # None
            THEN Msg(ensure_cursor_visible(
                         [a EXCEPT !.document = r.doc,
                                   !.cursor = Min(r.res[1],
                                                  saturating_sub(Len(r.doc.data), 1))]),
                     <<"Redo">>)
            ELSE Msg(a, <<"Nothing to redo">>)
      [] name \in {"StartSearch", "StartSearchBack"} ->
            [a EXCEPT !.search_mode = TRUE, !.search_query = <<>>,
                      !.search_start_pos = a.cursor]
      [] name = "SearchNext" -> IF a.search_query # <<>> THEN find_next(a) ELSE a
      [] name = "SearchPrev" -> IF a.search_query # <<>> THEN find_prev(a) ELSE a
      [] name = "StartReplace" ->
            [a EXCEPT !.replace_mode = "EnteringSearch", !.search_query = <<>>,
                      !.replace_with = <<>>, !.search_start_pos = a.cursor]
      [] name = "StartGoto" ->
            [a EXCEPT !.prompt_mode = "GotoAddress", !.prompt_input = <<>>]
      [] name = "OpenFile" ->
            [a EXCEPT !.prompt_mode = "OpenFile", !.prompt_input = <<>>]
      [] name = "SaveAs" ->
            LET fname == Document_filename(a.document) IN
            [a EXCEPT !.prompt_mode = "SaveAs",
                      !.prompt_input = IF fname = None THEN <<>> ELSE fname[1]]
      [] name = "KillBuffer" ->
            IF Document_is_modified(a.document)
            THEN [a EXCEPT !.confirm_mode = <<"KillBuffer">>]
            ELSE do_kill_buffer(a)
      [] name = "ExecuteCommand" ->
            [a EXCEPT !.prompt_mode = "Command", !.prompt_input = <<>>,
                      !.current_command = <<>>]
      [] OTHER -> a

\* App::execute
execute(a, action, env) ==
    ExecuteArm(IF action[1] # "EnterCtrlX" THEN [a EXCEPT !.status_message = None] ELSE a,
               action, env)

\* str::starts_with
starts_with(t, prefix) ==
    Len(t) >= Len(prefix) /\ SubSeq(t, 1, Len(prefix)) = prefix

\* char::to_digit(radix) on an ASCII character, radix 10 or 16
to_digit(c, radix) ==
    IF c \in 48..57 THEN Some(c - 48)
    ELSE IF radix = 16 /\ is_ascii_hexdigit(c) THEN to_digit16(c)
    ELSE None

RECURSIVE DigitsValue(_, _, _)
DigitsValue(t, radix, acc) ==
    IF t = <<>> THEN acc
    ELSE DigitsValue(Tail(t), radix, (acc * radix) + to_digit(t[1], radix)[1])

\* usize::from_str_radix and str::parse::<usize>: an optional '+', then one or
\* more digits. The texts of the model are too short to overflow a usize.
from_str_radix(t, radix) ==
    LET digits == IF t # <<>> /\ t[1] = Ch("+") THEN Tail(t) ELSE t IN
    IF digits # <<>> /\ \A i \in 1..Len(digits) : to_digit(digits[i], radix) # None
    THEN Some(DigitsValue(digits, radix, 0))
    ELSE None

\* u8::from_str_radix and str::parse::<u8>
u8_from_str_radix(t, radix) ==
    LET v == from_str_radix(t, radix) IN
    IF v # None /\ v[1] <= 255 THEN v ELSE None

\* bx: parse_hex, Result<Vec<u8>> as an Option (None: the error)
parse_hex(t) ==
    LET cleaned == SelectSeq(t, is_ascii_hexdigit) IN
    IF Len(cleaned) % 2 # 0 THEN None
    ELSE Some([i \in 1..(Len(cleaned) \div 2) |->
                  u8_from_str_radix(SubSeq(cleaned, (2 * i) - 1, 2 * i), 16)[1]])

\* bx: find_pattern, the offsets of all occurrences in ascending order
RECURSIVE bx_find_from(_, _, _)
bx_find_from(data, pattern, i) ==
    IF i > Len(data) - Len(pattern) THEN <<>>
    ELSE (IF Window(data, i, Len(pattern)) = pattern THEN <<i>> ELSE <<>>)
             \o bx_find_from(data, pattern, i + 1)

bx_find_pattern(data, pattern) ==
    IF pattern = <<>> \/ Len(pattern) > Len(data) THEN <<>>
    ELSE bx_find_from(data, pattern, 0)

\* Iterator::rev on a Vec
Rev(v) == [i \in 1..Len(v) |-> v[Len(v) + 1 - i]]

\* Vec::splice(start..end, with): a range that passes the end of the vector
\* or has start > end panics
Vec_splice(v, start, end, with) ==
    IF start > end \/ end > Len(v) THEN <<"Panic">>
    ELSE <<"Ok", SubSeq(v, 1, start) \o with \o SubSeq(v, end + 1, Len(v))>>

\* the loop of cmd_replace over the offsets in the order given
RECURSIVE SpliceEach(_, _, _, _)
SpliceEach(data, offsets, n, to_bytes) ==
    IF offsets = <<>> THEN <<"Ok", data>>
    ELSE LET done == Vec_splice(data, offsets[1], offsets[1] + n, to_bytes) IN
         IF done = <<"Panic">> THEN done
         ELSE SpliceEach(done[2], Tail(offsets), n, to_bytes)

\* bx: cmd_replace on the bytes read; <<"Ok", bytes written>>, <<"Err">> for
\* a failed parse_hex, <<"Panic">>
cmd_replace(from, to, data, all) ==
    LET from_bytes == parse_hex(from)
        to_bytes   == parse_hex(to)
    IN  IF from_bytes = None \/ to_bytes = None THEN <<"Err">>
        ELSE LET matches == bx_find_pattern(data, from_bytes[1])
                 indices == IF all THEN Rev(matches) ELSE <<matches[1]>>
             IN  IF matches = <<>> THEN <<"Ok", data>>
                 ELSE SpliceEach(data, Rev(indices), Len(from_bytes[1]), to_bytes[1])

\* Document::is_readonly
Document_is_readonly(d) == d.readonly

\* Document::set_readonly
Document_set_readonly(d, readonly) ==
    [doc |-> [d EXCEPT !.readonly = readonly], res |-> <<"Ok">>]

\* App::parse_number
parse_number(t) ==
    IF starts_with(t, Str(<<"0", "x">>)) \/ starts_with(t, Str(<<"0", "X">>))
    THEN from_str_radix(SubSeq(t, 3, Len(t)), 16)
    ELSE from_str_radix(t, 10)

\* App::parse_byte
parse_byte(t) ==
    IF starts_with(t, Str(<<"0", "x">>)) \/ starts_with(t, Str(<<"0", "X">>))
    THEN u8_from_str_radix(SubSeq(t, 3, Len(t)), 16)
    ELSE IF Len(as_bytes(t)) <= 2 /\ AllChars(t, is_ascii_hexdigit)
    THEN u8_from_str_radix(t, 16)
    ELSE u8_from_str_radix(t, 10)

\* str::split_whitespace
RECURSIVE split_whitespace(_)
split_whitespace(t) ==
    LET rest == trim_start(t)
        n    == IF \E i \in 1..Len(rest) : is_whitespace(rest[i])
                THEN (CHOOSE i \in 1..Len(rest) :
                         /\ is_whitespace(rest[i])
                         /\ \A j \in 1..(i - 1) : ~is_whitespace(rest[j])) - 1
                ELSE Len(rest)
    IN  IF rest = <<>> THEN <<>>
        ELSE <<SubSeq(rest, 1, n)>> \o split_whitespace(SubSeq(rest, n + 1, Len(rest)))

\* the address goto_address reads from the trimmed, non-empty input:
\* Result<usize> as an Option
parse_address(input) ==
    LET n == Len(input) IN
    IF starts_with(input, Str(<<"0", "x">>)) \/ starts_with(input, Str(<<"0", "X">>))
    THEN from_str_radix(SubSeq(input, 3, n), 16)
    ELSE IF input[n] = Ch("h") \/ input[n] = Ch("H")
    THEN from_str_radix(SubSeq(input, 1, n - 1), 16)
    ELSE IF /\ AllChars(input, is_ascii_hexdigit)
            /\ \E i \in 1..n : is_ascii_alphabetic(input[i])
    THEN from_str_radix(input, 16)
    ELSE from_str_radix(input, 10)

\* a goto_address that refuses the end-of-file position
goto_address_refuses_end(a, text) ==
    LET input == trim(text)
        addr  == parse_address(input)
    IN  IF input = <<>> THEN Msg(a, <<"No address">>)
        ELSE IF addr = None THEN Msg(a, <<"Invalid address">>)
        ELSE IF addr[1] < DocLen(a)
        THEN Msg(ensure_cursor_visible([a EXCEPT !.cursor = addr[1]]), <<"Jumped to", addr[1]>>)
        ELSE Msg(a, <<"Address exceeds file size", addr[1], DocLen(a)>>)

\* App::goto_address
goto_address(a, text) ==
    LET input == trim(text)
        addr  == parse_address(input)
    IN  IF input = <<>> THEN Msg(a, <<"No address">>)
        ELSE IF addr = None THEN Msg(a, <<"Invalid address">>)
        ELSE IF addr[1] <= DocLen(a)
        THEN Msg(ensure_cursor_visible([a EXCEPT !.cursor = addr[1]]), <<"Jumped to", addr[1]>>)
        ELSE Msg(a, <<"Address exceeds file size", addr[1], DocLen(a)>>)

\* App::open and App::open_file; the path is kept as typed (a leading "~/" names
\* the same file under the home directory)
open_file(a, text, env) ==
    LET path == trim(text) IN
    IF path = <<>> THEN Msg(a, <<"No file specified">>)
    ELSE IF env.file # None
    THEN Msg([a EXCEPT !.document = Document_open(Some(path), env.file[1]),
                       !.cursor = 0, !.offset = 0, !.selection = None],
             <<"Opened", path>>)
    ELSE Msg(a, <<"Failed to open">>)

\* App::save_as
save_as(a, text, env) ==
    LET path == trim(text)
        r    == Document_save_as(a.document, Some(path), env.io_ok)
    IN  IF path = <<>> THEN Msg(a, <<"No file specified">>)
        ELSE IF r.res = <<"Ok">>
        THEN Msg([a EXCEPT !.document = r.doc], <<"Saved", path>>)
        ELSE Msg([a EXCEPT !.document = r.doc], <<"Failed to save">>)

\* for i in start..=end: set(i, byte) where i < len
RECURSIVE FillRange(_, _, _, _)
FillRange(d, i, end, byte) ==
    IF i > end THEN d
    ELSE FillRange(IF i < Len(d.data) THEN Document_set(d, i, byte).doc ELSE d,
                   i + 1, end, byte)

\* App::cmd_fill
cmd_fill(a, text) ==
    LET arg  == trim(text)
        byte == IF starts_with(arg, Str(<<"0", "x">>)) \/ starts_with(arg, Str(<<"0", "X">>))
                THEN u8_from_str_radix(SubSeq(arg, 3, Len(arg)), 16)
                ELSE IF Len(as_bytes(arg)) = 2 /\ AllChars(arg, is_ascii_hexdigit)
                THEN u8_from_str_radix(arg, 16)
                ELSE u8_from_str_radix(arg, 10)
    IN  IF byte = None THEN Msg(a, <<"Invalid byte value">>)
        ELSE IF a.selection = None THEN Msg(a, <<"No selection">>)
        ELSE LET start == a.selection[1][1]
                 end   == a.selection[1][2]
             IN  clear_selection(
                     Msg([a EXCEPT !.document = FillRange(a.document, start, end, byte[1])],
                         <<"Filled bytes", end - start + 1, byte[1]>>))

\* App::cmd_insert
cmd_insert(a, text) ==
    LET parts == split_whitespace(trim(text))
        count == parse_number(parts[1])
        byte  == IF Len(parts) = 1 THEN Some(0) ELSE parse_byte(parts[2])
    IN  IF Len(parts) \notin {1, 2} THEN Msg(a, <<"Usage: insert <count> [byte]">>)
        ELSE IF count = None THEN Msg(a, <<"Invalid count">>)
        ELSE IF byte = None THEN Msg(a, <<"Invalid byte value">>)
        ELSE IF count[1] = 0 THEN Msg(a, <<"Count must be > 0">>)
        ELSE Msg([a EXCEPT !.document =
                      InsertBytes(a.document, a.cursor,
                                  [i \in 1..count[1] |-> byte[1]], 1)],
                 <<"Inserted bytes", count[1], byte[1]>>)

\* App::execute_command_with_arg
execute_command_with_arg(a, arg) ==
    LET cmd == a.current_command
        a1  == [a EXCEPT !.current_command = <<>>]
    IN  IF cmd = Str(<<"f", "i", "l", "l">>) THEN cmd_fill(a1, arg)
        ELSE IF cmd = Str(<<"i", "n", "s", "e", "r", "t">>) THEN cmd_insert(a1, arg)
        ELSE Msg(a1, <<"Unknown command", cmd>>)

\* App::dispatch_command
dispatch_command(a, text, env) ==
    LET cmd == to_lowercase(trim(text)) IN
    IF cmd \in {Str(<<"g", "o", "t", "o">>), Str(<<"g">>)}
    THEN [a EXCEPT !.prompt_mode = "GotoAddress", !.prompt_input = <<>>]
    ELSE IF cmd \in {Str(<<"s", "a", "v", "e">>), Str(<<"s">>)}
    THEN SaveAndReport(a, env)
    ELSE IF cmd \in {Str(<<"q", "u", "i", "t">>), Str(<<"q">>)}
    THEN execute(a, <<"Quit">>, env)
    ELSE IF cmd \in {Str(<<"f", "i", "l", "l">>), Str(<<"f">>)}
    THEN IF a.selection = None
         THEN Msg(a, <<"No selection">>)
         ELSE [a EXCEPT !.current_command = Str(<<"f", "i", "l", "l">>),
                        !.prompt_mode = "CommandArg", !.prompt_input = <<>>]
    ELSE IF cmd \in {Str(<<"i", "n", "s", "e", "r", "t">>), Str(<<"i">>)}
    THEN [a EXCEPT !.current_command = Str(<<"i", "n", "s", "e", "r", "t">>),
                   !.prompt_mode = "CommandArg", !.prompt_input = <<>>]
    ELSE IF cmd \in {Str(<<"h", "e", "l", "p">>), Str(<<"?">>), Str(<<"h">>)}
    THEN Msg(a, <<"Commands">>)
    ELSE IF cmd = <<>> THEN a
    ELSE Msg(a, <<"Unknown command", cmd>>)

\* an execute_prompt that stays in the prompt
PromptLeft_stays(a) == a

\* execute_prompt leaves the prompt before it looks at the input
PromptLeft(a) == [a EXCEPT !.prompt_mode = "Off"]

\* App::execute_prompt
execute_prompt(a, env) ==
    LET input == a.prompt_input
        mode  == a.prompt_mode
        a1    == PromptLeft(a)
    IN  CASE mode = "GotoAddress" -> goto_address(a1, input)
          [] mode = "OpenFile" ->
                IF Document_is_modified(a1.document)
                THEN [a1 EXCEPT !.confirm_mode = <<"OpenFile", input>>]
                ELSE open_file(a1, input, env)
          [] mode = "SaveAs" -> save_as(a1, input, env)
          [] mode = "Command" -> dispatch_command(a1, input, env)
          [] mode = "CommandArg" -> execute_command_with_arg(a1, input)
          [] OTHER -> a1

\* App::execute_confirmed_action
execute_confirmed_action(a, env) ==
    LET mode == a.confirm_mode
        a1   == [a EXCEPT !.confirm_mode = <<"Off">>]
    IN  CASE mode[1] = "Quit" -> [a1 EXCEPT !.should_quit = TRUE]
          [] mode[1] = "OpenFile" -> open_file(a1, mode[2], env)
          [] mode[1] = "KillBuffer" -> do_kill_buffer(a1)
          [] OTHER -> a1

----------------------------------------------------------------------------
(* Key events (crossterm KeyEvent of kind Press) and their handlers.       *)

Key(code, ctrl, alt, shift) == [code |-> code, ctrl |-> ctrl, alt |-> alt, shift |-> shift]

\* KeyCode::Char(c) for the ASCII character written s
CharCode(s) == <<"Char", Ch(s)>>

Plain(code) == Key(code, FALSE, FALSE, FALSE)
Ctrl(s) == Key(CharCode(s), TRUE, FALSE, FALSE)
Alt(s) == Key(CharCode(s), FALSE, TRUE, FALSE)
Shift(code) == Key(code, FALSE, FALSE, TRUE)

IsCode(key, name) == key.code[1] = name
IsChar(key, s) == key.code[1] = "Char" /\ key.code[2] = Ch(s)
NoMods(key) == ~key.ctrl /\ ~key.alt /\ ~key.shift
OnlyCtrl(key) == key.ctrl /\ ~key.alt /\ ~key.shift
OnlyAlt(key) == ~key.ctrl /\ key.alt /\ ~key.shift

\* Action::from_key
from_key(key) ==
    CASE IsChar(key, "x") /\ OnlyCtrl(key) -> <<"EnterCtrlX">>
      [] IsChar(key, "g") /\ OnlyCtrl(key) -> <<"Cancel">>
      [] IsCode(key, "Esc") -> <<"Cancel">>
      [] IsChar(key, "f") /\ OnlyCtrl(key) -> <<"CursorRight">>
      [] IsChar(key, "b") /\ OnlyCtrl(key) -> <<"CursorLeft">>
      [] IsChar(key, "n") /\ OnlyCtrl(key) -> <<"CursorDown">>
      [] IsChar(key, "p") /\ OnlyCtrl(key) -> <<"CursorUp">>
      [] IsChar(key, "a") /\ OnlyCtrl(key) -> <<"CursorHome">>
      [] IsChar(key, "e") /\ OnlyCtrl(key) -> <<"CursorEnd">>
      [] IsChar(key, "v") /\ OnlyCtrl(key) -> <<"PageDown">>
      [] IsChar(key, "v") /\ OnlyAlt(key) -> <<"PageUp">>
      [] IsChar(key, "<") /\ ~key.ctrl /\ key.alt -> <<"GotoBeginning">>
      [] IsChar(key, ">") /\ ~key.ctrl /\ key.alt -> <<"GotoEnd">>
      [] IsCode(key, "Up") /\ NoMods(key) -> <<"CursorUp">>
      [] IsCode(key, "Down") /\ NoMods(key) -> <<"CursorDown">>
      [] IsCode(key, "Left") /\ NoMods(key) -> <<"CursorLeft">>
      [] IsCode(key, "Right") /\ NoMods(key) -> <<"CursorRight">>
      [] IsCode(key, "Up") /\ ~key.ctrl /\ ~key.alt /\ key.shift -> <<"SelectUp">>
      [] IsCode(key, "Down") /\ ~key.ctrl /\ ~key.alt /\ key.shift -> <<"SelectDown">>
      [] IsCode(key, "Left") /\ ~key.ctrl /\ ~key.alt /\ key.shift -> <<"SelectLeft">>
      [] IsCode(key, "Right") /\ ~key.ctrl /\ ~key.alt /\ key.shift -> <<"SelectRight">>
      [] IsCode(key, "Home") -> <<"CursorHome">>
      [] IsCode(key, "End") -> <<"CursorEnd">>
      [] IsCode(key, "PageUp") -> <<"PageUp">>
      [] IsCode(key, "PageDown") -> <<"PageDown">>
      [] IsCode(key, "Tab") /\ ~key.ctrl /\ ~key.alt -> <<"ToggleMode">>
      [] IsCode(key, "Insert") /\ ~key.ctrl /\ ~key.alt -> <<"ToggleEditMode">>
      [] IsChar(key, "d") /\ OnlyCtrl(key) -> <<"Delete">>
      [] IsCode(key, "Delete") /\ ~key.ctrl /\ ~key.alt -> <<"Delete">>
      [] IsCode(key, "Backspace") /\ ~key.ctrl /\ ~key.alt -> <<"Backspace">>
      [] IsChar(key, " ") /\ OnlyCtrl(key) -> <<"StartSelection">>
      [] IsChar(key, "w") /\ OnlyCtrl(key) -> <<"Cut">>
      [] IsChar(key, "w") /\ OnlyAlt(key) -> <<"Copy">>
      [] IsChar(key, "y") /\ OnlyCtrl(key) -> <<"Paste">>
      [] IsChar(key, "u") /\ OnlyCtrl(key) -> <<"Undo">>
      [] IsChar(key, "/") /\ OnlyCtrl(key) -> <<"Redo">>
      [] IsChar(key, "s") /\ OnlyCtrl(key) -> <<"StartSearch">>
      [] IsChar(key, "r") /\ OnlyCtrl(key) -> <<"StartSearchBack">>
      [] IsChar(key, "%") /\ ~key.ctrl /\ key.alt -> <<"StartReplace">>
      [] IsCode(key, "F2") /\ ~key.ctrl /\ ~key.alt -> <<"ToggleEncoding">>
      [] OTHER -> <<"None">>

\* Action::from_key_after_ctrl_x
from_key_after_ctrl_x(key) ==
    CASE IsChar(key, "c") /\ key.ctrl -> <<"Quit">>
      [] IsChar(key, "s") /\ key.ctrl -> <<"Save">>
      [] OTHER -> <<"Cancel">>

\* a cancelled search that leaves the cursor on the match
SearchCancelled_stays(a) ==
    Msg(ensure_cursor_visible([a EXCEPT !.search_mode = FALSE]), <<"Cancelled">>)

\* the arm of handle_search_key that cancels
SearchCancelled(a) ==
    Msg(ensure_cursor_visible([a EXCEPT !.search_mode = FALSE,
                                        !.cursor = a.search_start_pos]),
        <<"Cancelled">>)

\* App::handle_search_key
handle_search_key(a, key) ==
    IF (IsCode(key, "Esc") \/ IsChar(key, "g")) /\ key.ctrl
    THEN SearchCancelled(a)
    ELSE IF IsCode(key, "Enter")
    THEN IF a.search_query # <<>>
         THEN Msg([a EXCEPT !.search_mode = FALSE, !.last_search_query = a.search_query],
                  <<"I-search", a.search_query>>)
         ELSE Msg([a EXCEPT !.search_mode = FALSE], <<"Search cancelled">>)
    ELSE IF (IsChar(key, "s") \/ IsChar(key, "r")) /\ key.ctrl
    THEN LET a1 == IF a.search_query = <<>> /\ a.last_search_query # <<>>
                   THEN [a EXCEPT !.search_query = a.last_search_query]
                   ELSE a
         IN  IF IsChar(key, "s") THEN find_next(a1) ELSE find_prev(a1)
    ELSE IF IsCode(key, "Backspace")
    THEN LET a1 == [a EXCEPT !.search_query = VecPop(@)] IN
         IF a1.search_query = <<>>
         THEN ensure_cursor_visible([a1 EXCEPT !.cursor = a.search_start_pos])
         ELSE do_incremental_search(a1)
    ELSE IF IsCode(key, "Char") /\ ~key.ctrl
    THEN do_incremental_search([a EXCEPT !.search_query = Append(@, key.code[2])])
    ELSE a

\* the arms of handle_replace_key for EnteringSearch and EnteringReplace that
\* cancel
ReplaceEntryCancel(a) ==
    Msg(ensure_cursor_visible([a EXCEPT !.replace_mode = "Off",
                                        !.cursor = a.search_start_pos]),
        <<"Cancelled">>)

\* App::handle_replace_key
handle_replace_key(a, key) ==
    CASE a.replace_mode = "EnteringSearch" ->
            IF (IsCode(key, "Esc") \/ IsChar(key, "g")) /\ key.ctrl
            THEN ReplaceEntryCancel(a)
            ELSE IF IsCode(key, "Enter")
            THEN IF a.search_query = <<>>
                 THEN Msg([a EXCEPT !.replace_mode = "Off"], <<"Empty search pattern">>)
                 ELSE [a EXCEPT !.replace_mode = "EnteringReplace"]
            ELSE IF IsCode(key, "Backspace")
            THEN [a EXCEPT !.search_query = VecPop(@)]
            ELSE IF IsCode(key, "Char") /\ ~key.ctrl
            THEN [a EXCEPT !.search_query = Append(@, key.code[2])]
            ELSE a
      [] a.replace_mode = "EnteringReplace" ->
            IF (IsCode(key, "Esc") \/ IsChar(key, "g")) /\ key.ctrl
            THEN ReplaceEntryCancel(a)
            ELSE IF IsCode(key, "Enter")
            THEN find_next_for_replace([a EXCEPT !.replace_mode = "Confirming"])
            ELSE IF IsCode(key, "Backspace")
            THEN [a EXCEPT !.replace_with = VecPop(@)]
            ELSE IF IsCode(key, "Char") /\ ~key.ctrl
            THEN [a EXCEPT !.replace_with = Append(@, key.code[2])]
            ELSE a
      [] a.replace_mode = "Confirming" ->
            LET normalized == IF IsCode(key, "Char")
                              THEN <<"Char", normalize_fullwidth(key.code[2])>>
                              ELSE key.code
                Is(s) == normalized[1] = "Char" /\ normalized[2] = Ch(s)
            IN  IF Is("y") \/ Is("Y") \/ Is(" ")
                THEN find_next_for_replace(do_replace_current(a))
                ELSE IF Is("n") \/ Is("N") \/ normalized[1] = "Delete"
                THEN find_next_for_replace(a)
                ELSE IF Is("!")
                THEN do_replace_all_remaining(a)
                ELSE IF Is("q") \/ Is("Q") \/ normalized[1] = "Esc"
                THEN Msg([a EXCEPT !.replace_mode = "Off"], <<"Query replace finished">>)
                ELSE IF Is("g") /\ key.ctrl
                THEN Msg([a EXCEPT !.replace_mode = "Off"], <<"Query replace finished">>)
                ELSE a
      [] OTHER -> a

\* App::handle_prompt_key
handle_prompt_key(a, key, env) ==
    IF (IsCode(key, "Esc") \/ IsChar(key, "g")) /\ key.ctrl
    THEN Msg([a EXCEPT !.prompt_mode = "Off"], <<"Cancelled">>)
    ELSE IF IsCode(key, "Enter") THEN execute_prompt(a, env)
    ELSE IF IsCode(key, "Backspace") THEN [a EXCEPT !.prompt_input = VecPop(@)]
    ELSE IF IsCode(key, "Char") /\ ~key.ctrl
    THEN [a EXCEPT !.prompt_input = Append(@, key.code[2])]
    ELSE a

\* a failed save that goes on to the pending action
SaveFailed_proceeds(a, env) == execute_confirmed_action(Msg(a, <<"Save failed">>), env)

\* the arm of handle_confirm_key for 'y' when Document::save returns an error
SaveFailed(a, env) == [Msg(a, <<"Save failed">>) EXCEPT !.confirm_mode = <<"Off">>]

\* App::handle_confirm_key
handle_confirm_key(a, key, env) ==
    LET normalized == IF IsCode(key, "Char")
                      THEN <<"Char", normalize_fullwidth(key.code[2])>>
                      ELSE key.code
        Is(s) == normalized[1] = "Char" /\ normalized[2] = Ch(s)
    IN  IF Is("y") \/ Is("Y")
        THEN LET r == Document_save(a.document, env.io_ok) IN
             IF r.res # <<"Ok">>
             THEN SaveFailed(a, env)
             ELSE execute_confirmed_action([a EXCEPT !.document = r.doc], env)
        ELSE IF Is("n") \/ Is("N") THEN execute_confirmed_action(a, env)
        ELSE IF Is("c") \/ Is("C") \/ normalized[1] = "Esc"
        THEN Msg([a EXCEPT !.confirm_mode = <<"Off">>], <<"Cancelled">>)
        ELSE IF Is("g") /\ key.ctrl
        THEN Msg([a EXCEPT !.confirm_mode = <<"Off">>], <<"Cancelled">>)
        ELSE a

\* the arm of handle_event for a key in no elevated mode
handle_normal_key(a, key, env) ==
    LET action == IF a.prefix_key = "None" THEN from_key(key) ELSE from_key_after_ctrl_x(key)
        a1     == [a EXCEPT !.prefix_key = "None"]
        \* the action handed to execute, <<"None">> when the key is dropped
        todo   == IF action # <<"None">> THEN action
                  ELSE IF IsCode(key, "Char") /\ ~key.ctrl /\ ~key.alt
                  THEN IF a1.hex_mode
                       THEN <<"InputHex", key.code[2]>>
                       ELSE <<"InputAscii", key.code[2]>>
                  ELSE <<"None">>
    IN  IF todo # <<"None">> THEN execute(a1, todo, env) ELSE a1

\* App::handle_event, for an event that was polled
handle_event(a, event, env) ==
    CASE event[1] = "Paste" ->
            IF a.search_mode
            THEN do_incremental_search([a EXCEPT !.search_query = @ \o event[2]])
            ELSE paste_from_terminal(a, event[2])
      [] event[1] = "Key" ->
            IF a.search_mode THEN handle_search_key(a, event[2])
            ELSE IF a.replace_mode # "Off" THEN handle_replace_key(a, event[2])
            ELSE IF a.prompt_mode # "Off" THEN handle_prompt_key(a, event[2], env)
            ELSE IF a.confirm_mode # <<"Off">> THEN handle_confirm_key(a, event[2], env)
            ELSE handle_normal_key(a, event[2], env)
      [] event[1] = "FocusGained" -> Msg(a, <<"Focus gained">>)
      [] OTHER -> a

----------------------------------------------------------------------------
(* The Document API driven directly: any caller, any call.                 *)

\* byte sequences of length at most n over the callers' bytes
BytesUpTo(n) == UNION {[1..k -> ArgBytes] : k \in 0..n}

\* a caller that observes nothing
NoCall == <<"none">>

InitCaller ==
    /\ call = NoCall
    /\ pre = Document_new
    /\ phase = "free"
    /\ mark = Document_new
    /\ n_seq = 0
    /\ n_rec = 0
    /\ n_undo = 0
    /\ n_redo = 0

\* Document::new, Document::from_bytes, Document::open
InitDoc ==
    /\ \E bytes \in BytesUpTo(1), p \in {NoPath, Some(Str(<<"f">>))} :
           document = Document_open(p, bytes)
    /\ InitApp
    /\ InitCaller

\* positions a caller passes: every offset of the buffer, its end and one beyond
ArgPos == 0..(MaxLen + 1)

\* the logs hold at most MaxHist operations, the buffer at most MaxLen bytes
RoomFor(r) ==
    /\ Len(r.doc.data) <= MaxLen
    /\ Len(r.doc.undo_stack) + Len(r.doc.redo_stack) <= MaxHist

\* what a call leaves behind: the Document, and for a caller that observes
\* single calls (phase "free") the call, its result and the Document before
Called(name, args, r) ==
    /\ RoomFor(r)
    /\ document' = r.doc
    /\ IF phase = "free"
       THEN pre' = document /\ call' = <<name, args, r.res>>
       ELSE UNCHANGED <<pre, call>>

Recorded(r) == Len(r.doc.undo_stack) > Len(document.undo_stack)

\* a mutating call: outside an observed sequence, or as its next call
Mutation(name, args, r) ==
    /\ Called(name, args, r)
    /\ \/ /\ phase = "free"
          /\ UNCHANGED <<phase, mark, n_seq, n_rec, n_undo, n_redo>>
       \/ /\ phase = "seq"
          /\ n_seq < MaxSeq
          /\ n_seq' = n_seq + 1
          /\ n_rec' = IF Recorded(r) THEN n_rec + 1 ELSE n_rec
          /\ UNCHANGED <<phase, mark, n_undo, n_redo>>

CallSet(pos, value) ==
    /\ Mutation("set", <<pos, value>>, Document_set(document, pos, value))
    /\ UNCHANGED appVars

CallInsert(pos, value) ==
    /\ Mutation("insert", <<pos, value>>, Document_insert(document, pos, value))
    /\ UNCHANGED appVars

CallDelete(pos) ==
    /\ Mutation("delete", <<pos>>, Document_delete(document, pos))
    /\ UNCHANGED appVars

\* undo(): free, after an observed sequence of mutations (once per call of
\* it), or as one of the k undos that k redos are to follow
CallUndo ==
    LET r == Document_undo(document) IN
    /\ Called("undo", <<>>, r)
    /\ \/ /\ phase = "free"
          /\ UNCHANGED <<phase, mark, n_seq, n_rec, n_undo, n_redo>>
       \/ /\ phase \in {"seq", "undo"}
          /\ n_undo < n_seq
          /\ phase' = "undo"
          /\ n_undo' = n_undo + 1
          /\ UNCHANGED <<mark, n_seq, n_rec, n_redo>>
       \/ /\ phase = "undos"
          /\ r.res # None
          /\ n_undo < MaxHist
          /\ n_undo' = n_undo + 1
          /\ UNCHANGED <<phase, mark, n_seq, n_rec, n_redo>>
    /\ UNCHANGED appVars

CallRedo ==
    LET r == Document_redo(document) IN
    /\ Called("redo", <<>>, r)
    /\ \/ /\ phase = "free"
          /\ UNCHANGED <<phase, mark, n_seq, n_rec, n_undo, n_redo>>
       \/ /\ phase \in {"undos", "redos"}
          /\ n_redo < n_undo
          /\ phase' = "redos"
          /\ n_redo' = n_redo + 1
          /\ UNCHANGED <<mark, n_seq, n_rec, n_undo>>
    /\ UNCHANGED appVars

CallSave(io_ok) ==
    /\ phase = "free"
    /\ Called("save", <<>>, Document_save(document, io_ok))
    /\ UNCHANGED <<phase, mark, n_seq, n_rec, n_undo, n_redo>>
    /\ UNCHANGED appVars

\* the caller starts to observe: a sequence of set/insert/delete calls ...
BeginSeq ==
    /\ phase = "free"
    /\ phase' = "seq"
    /\ mark' = document
    /\ n_seq' = 0 /\ n_rec' = 0 /\ n_undo' = 0 /\ n_redo' = 0
    /\ call' = NoCall
    /\ pre' = Document_new
    /\ UNCHANGED <<document, appVars>>

\* ... or k undos that k redos are to follow
BeginUndos ==
    /\ phase = "free"
    /\ phase' = "undos"
    /\ mark' = document
    /\ n_seq' = 0 /\ n_rec' = 0 /\ n_undo' = 0 /\ n_redo' = 0
    /\ call' = NoCall
    /\ pre' = Document_new
    /\ UNCHANGED <<document, appVars>>

EndObserved ==
    /\ phase # "free"
    /\ phase' = "free"
    /\ mark' = Document_new
    /\ n_seq' = 0 /\ n_rec' = 0 /\ n_undo' = 0 /\ n_redo' = 0
    /\ call' = NoCall
    /\ pre' = Document_new
    /\ UNCHANGED <<document, appVars>>

NextDoc ==
    \/ \E pos \in ArgPos, value \in ArgBytes : CallSet(pos, value)
    \/ \E pos \in ArgPos, value \in ArgBytes : CallInsert(pos, value)
    \/ \E pos \in ArgPos : CallDelete(pos)
    \/ CallUndo
    \/ CallRedo
    \/ \E io_ok \in BOOLEAN : CallSave(io_ok)
    \/ BeginSeq
    \/ BeginUndos
    \/ EndObserved

SpecDoc == InitDoc /\ [][NextDoc]_vars

----------------------------------------------------------------------------
(* The editor driven by events (he's main loop calls handle_event) and by  *)
(* logical actions handed to execute().                                    *)

\* the world in which every file operation succeeds and the clipboard holds "41"
EnvOk == Env(TRUE, Some(Str(<<"4", "1">>)), Some(<<65>>))

\* the world in which every file operation fails and there is no clipboard
EnvFail == Env(FALSE, None, None)

\* how far beyond the longest buffer the runs follow a cursor
MaxOvershoot == 2

\* the limits of a family of runs: longest buffer, most operations in the undo
\* and redo logs, longest text typed into a query, a replacement or a prompt,
\* and the worlds the runs meet
Limits(len, hist, text, envs) == [len |-> len, hist |-> hist, text |-> text, envs |-> envs]

\* the states the limits keep
Within(a, lim) ==
    /\ Len(a.document.data) <= lim.len
    /\ a.cursor <= lim.len + MaxOvershoot
    /\ Len(a.document.undo_stack) + Len(a.document.redo_stack) <= lim.hist
    /\ Len(a.search_query) <= lim.text
    /\ Len(a.replace_with) <= lim.text
    /\ Len(a.prompt_input) <= lim.text

\* one step of the editor: the state after it
Step(a, lim) ==
    /\ Within(a, lim)
    /\ SetApp(a)
    /\ UNCHANGED callerVars

Handle(event, lim) == \E env \in lim.envs : Step(handle_event(App, event, env), lim)

Elevated(a) ==
    a.search_mode \/ a.replace_mode # "Off" \/ a.prompt_mode # "Off"
        \/ a.confirm_mode # <<"Off">>

\* he's loop ends once should_quit is set: every event comes before that.
\* Event::Paste
PasteEvent(texts, lim) ==
    /\ ~should_quit
    /\ \E t \in texts : Handle(<<"Paste", t>>, lim)

\* Event::Key dispatched to handle_search_key
SearchKey(keys, lim) ==
    /\ ~should_quit /\ search_mode
    /\ \E key \in keys : Handle(<<"Key", key>>, lim)

\* Event::Key dispatched to handle_replace_key while a text is entered
ReplaceKey(keys, lim) ==
    /\ ~should_quit /\ ~search_mode /\ replace_mode \in {"EnteringSearch", "EnteringReplace"}
    /\ \E key \in keys : Handle(<<"Key", key>>, lim)

\* Event::Key dispatched to handle_replace_key during Confirming
AnswerKey(keys, lim) ==
    /\ ~should_quit /\ ~search_mode /\ replace_mode = "Confirming"
    /\ \E key \in keys : Handle(<<"Key", key>>, lim)

\* Event::Key dispatched to handle_prompt_key
PromptKey(keys, lim) ==
    /\ ~should_quit /\ ~search_mode /\ replace_mode = "Off" /\ prompt_mode # "Off"
    /\ \E key \in keys : Handle(<<"Key", key>>, lim)

\* Event::Key dispatched to handle_confirm_key
ConfirmKey(keys, lim) ==
    /\ ~should_quit /\ ~search_mode /\ replace_mode = "Off" /\ prompt_mode = "Off"
    /\ confirm_mode # <<"Off">>
    /\ \E key \in keys : Handle(<<"Key", key>>, lim)

\* Event::Key translated by from_key or from_key_after_ctrl_x
NormalKey(keys, lim) ==
    /\ ~should_quit /\ ~Elevated(App)
    /\ \E key \in keys : Handle(<<"Key", key>>, lim)

\* execute(action) called with a logical action
ExecuteAction(actions, lim) ==
    /\ ~should_quit
    /\ \E action \in actions, env \in lim.envs : Step(execute(App, action, env), lim)

\* he: App::new(), then nothing, a file, or bytes from standard input
InitEditor(contents) ==
    /\ InitApp
    /\ InitCaller
    /\ \/ document = Document_new
       \/ \E bytes \in contents : document = Document_open(Some(Str(<<"f">>)), bytes)
       \/ \E bytes \in contents : document = Document_from_bytes(bytes)

(* Editing in Normal mode: motion, byte entry, selection, cut and paste,   *)
(* undo and redo.                                                          *)

\* longest buffer while editing
EditMaxLen == 1

\* most operations in the logs while editing
EditMaxHist == 2

EditLimits == Limits(EditMaxLen, EditMaxHist, 0, {EnvOk})

EditContents == {<<>>, <<65>>}

EditKeys ==
    {Plain(CharCode("4")), Plain(CharCode("1")),
     Plain(<<"Left">>), Plain(<<"Right">>), Shift(<<"Left">>), Alt(">"),
     Ctrl(" "), Ctrl("w"), Ctrl("u"), Ctrl("/"), Plain(<<"Insert">>), Ctrl("g")}

EditPastes == {Str(<<"4", "1">>)}

InitEdit == InitEditor(EditContents)

NextEdit == NormalKey(EditKeys, EditLimits) \/ PasteEvent(EditPastes, EditLimits)

SpecEdit == InitEdit /\ [][NextEdit]_vars

----------------------------------------------------------------------------
(* Claims about the Document, checked under SpecDoc *)

\* the arguments of the last call
CallPos == call[2][1]

CallValue == call[2][2]

PreLen == Len(pre.data)

\* C1: after a sequence of set/insert/delete calls, each of which recorded an
\* operation, as many undo() calls leave the bytes equal to the bytes before
\* the sequence and is_modified() equal to its value before the sequence.
C1_UndoRestoresBytesAndModified ==
    (phase = "undo" /\ n_undo = n_seq /\ n_rec = n_seq) =>
        /\ document.data = mark.data
        /\ Document_is_modified(document) = Document_is_modified(mark)

\* C2: k successful undo() calls followed by k redo() calls reproduce the
\* bytes and the undo log that existed before the undos; after a set that
\* changes a byte, an insert or a delete that succeeds the redo log is empty;
\* and redo() on an empty redo log returns nothing and changes nothing.
C2_RedoMirrorsUndo ==
    /\ (phase = "redos" /\ n_redo = n_undo) =>
           /\ document.data = mark.data
           /\ document.undo_stack = mark.undo_stack
    /\ ( \/ call[1] = "set" /\ document.data # pre.data
         \/ call[1] \in {"insert", "delete"} /\ call[3][1] = "Ok" ) =>
           /\ document.redo_stack = <<>>
           /\ Document_redo(document) = [doc |-> document, res |-> None]
    /\ (call[1] = "redo" /\ pre.redo_stack = <<>>) =>
           /\ call[3] = None
           /\ document = pre

\* two undos, then two redos, have been made
C2_Witness ==
    /\ phase = "redos"
    /\ n_undo = 2
    /\ n_redo = 2
    /\ Len(mark.undo_stack) = 2

\* C3: set(pos, value) with pos < len and bytes[pos] = value returns success
\* and changes nothing: bytes, undo log, redo log and modified flag.
C3_SetSameValueIsNoOp ==
    (call[1] = "set" /\ CallPos < PreLen /\ pre.data[CallPos + 1] = CallValue) =>
        /\ call[3] = <<"Ok">>
        /\ document.data = pre.data
        /\ document.undo_stack = pre.undo_stack
        /\ Len(document.undo_stack) = Len(pre.undo_stack)
        /\ document.redo_stack = pre.redo_stack
        /\ document.modified = pre.modified

\* a set of the value already there, on a Document with both logs non-empty
C3_Witness ==
    /\ call[1] = "set"
    /\ CallPos < PreLen
    /\ pre.data[CallPos + 1] = CallValue
    /\ pre.undo_stack # <<>>
    /\ pre.redo_stack # <<>>

\* C4: no position is clamped: set and delete at pos >= len and insert at
\* pos > len return OutOfBounds and change nothing; insert(len) succeeds and
\* appends the byte; delete(pos) with pos < len returns the removed byte.
C4_OutOfBoundsNeverClamped ==
    /\ ( \/ call[1] \in {"set", "delete"} /\ CallPos >= PreLen
         \/ call[1] = "insert" /\ CallPos > PreLen ) =>
           /\ call[3] = <<"OutOfBounds", CallPos>>
           /\ document = pre
    /\ (call[1] = "insert" /\ CallPos = PreLen) =>
           /\ call[3] = <<"Ok">>
           /\ document.data = Append(pre.data, CallValue)
    /\ (call[1] = "delete" /\ CallPos < PreLen) =>
           /\ call[3] = <<"Ok", pre.data[CallPos + 1]>>
           /\ document.data = VecRemove(pre.data, CallPos)

\* an insert one beyond the end of a non-empty buffer has been refused
C4_Witness ==
    /\ call[1] = "insert"
    /\ PreLen > 0
    /\ CallPos = PreLen + 1
    /\ call[3][1] = "OutOfBounds"

(* The elevated modes: entered by logical actions, left by keys.           *)

\* longest buffer while the modes are exercised
ModeMaxLen == 1

\* most operations in the logs while the modes are exercised
ModeMaxHist == 1

\* longest text typed while the modes are exercised
ModeMaxText == 1

ModeLimits == Limits(ModeMaxLen, ModeMaxHist, ModeMaxText, {EnvOk})

\* the buffer at the start: the byte 'g'
ModeContents == {Str(<<"g">>)}

ModeActions ==
    {<<"StartSearch">>, <<"StartReplace">>, <<"StartGoto">>, <<"ExecuteCommand">>,
     <<"OpenFile">>, <<"KillBuffer">>, <<"Quit">>}

\* the keys that cancel
Escape == Plain(<<"Esc">>)
CtrlG == Ctrl("g")

\* keys in Normal mode: a hex digit, cancel
ModeNormalKeys == {Plain(CharCode("4")), Escape, CtrlG}

\* keys while a text is entered: search, replace, prompt
ModeEntryKeys == {Plain(CharCode("g")), Plain(<<"Enter">>), Escape, CtrlG}

\* keys that answer a question: query-replace, confirmation
ModeAnswerKeys == {Plain(CharCode("y")), Plain(CharCode("n")), Escape, CtrlG}

InitModes == InitEditor(ModeContents)

NextModes ==
    \/ ExecuteAction(ModeActions, ModeLimits)
    \/ NormalKey(ModeNormalKeys, ModeLimits)
    \/ SearchKey(ModeEntryKeys, ModeLimits)
    \/ ReplaceKey(ModeEntryKeys, ModeLimits)
    \/ AnswerKey(ModeAnswerKeys, ModeLimits)
    \/ PromptKey(ModeEntryKeys, ModeLimits)
    \/ ConfirmKey(ModeAnswerKeys, ModeLimits)

SpecModes == InitModes /\ [][NextModes]_vars

(* Query-replace on a buffer of 'a's and 'b's.                             *)

\* longest buffer during query-replace
ReplaceMaxLen == 3

\* most operations in the logs during query-replace
ReplaceMaxHist == 6

\* longest pattern and replacement typed
ReplaceMaxText == 2

ReplaceLimits == Limits(ReplaceMaxLen, ReplaceMaxHist, ReplaceMaxText, {EnvOk})

ReplaceContents == {Str(<<"a", "a", "a">>)}

\* keys in Normal mode: M-% and motion
ReplaceNormalKeys == {Alt("%"), Plain(<<"Right">>)}

\* keys while the pattern and the replacement are typed
ReplaceEntryKeys ==
    {Plain(CharCode("a")), Plain(CharCode("b")), Plain(<<"Enter">>), CtrlG}

\* answers during Confirming
ReplaceAnswerKeys ==
    {Plain(CharCode("y")), Plain(CharCode("n")), Plain(CharCode("!")),
     Plain(CharCode("q")), Plain(<<"Delete">>)}

InitReplace == InitEditor(ReplaceContents)

NextReplace ==
    \/ NormalKey(ReplaceNormalKeys, ReplaceLimits)
    \/ ReplaceKey(ReplaceEntryKeys, ReplaceLimits)
    \/ AnswerKey(ReplaceAnswerKeys, ReplaceLimits)

SpecReplace == InitReplace /\ [][NextReplace]_vars

----------------------------------------------------------------------------
(* Claims about the editor in Normal mode, checked under SpecEdit.         *)

\* C7: in every reachable state of the controller the cursor is a valid
\* offset, 0 <= cursor <= len(buffer).
C7_CursorWithinBuffer == cursor >= 0 /\ cursor <= Len(document.data)

\* the characters typed as hex digits, each with the digit it stands for
C10Digits ==
    {<<Ch("4"), 4>>, <<Ch("1"), 1>>, <<Ch("0"), 0>>, <<Ch("a"), 10>>,
     <<Ch("F"), 15>>, <<FullWidth(Ch("9")), 9>>}

\* C10: in Overwrite mode with hex entry Normal and cursor c <= len, after a
\* first digit d1 the byte at c is d1*16 + (low nibble of the old byte at c, 0
\* when c = len) and the entry state is HexFirstDigit(d1); after a second digit
\* d2 the byte at c is d1*16 + d2, the cursor is c + 1 and the entry state is
\* Normal; the length grows by one exactly when c = len.
C10_TwoHexDigitsOverwrite ==
    (edit_mode = "Overwrite" /\ input_state = <<"Normal">>
         /\ cursor <= Len(document.data)) =>
        \A k1 \in C10Digits, k2 \in C10Digits, env \in {EnvOk, EnvFail} :
            LET c   == cursor
                len == Len(document.data)
                old == IF c < len THEN document.data[c + 1] % 16 ELSE 0
                a1  == execute(App, <<"InputHex", k1[1]>>, env)
                a2  == execute(a1, <<"InputHex", k2[1]>>, env)
                grown == IF c = len THEN len + 1 ELSE len
            IN  /\ Len(a1.document.data) = grown
                /\ a1.document.data[c + 1] = (k1[2] * 16) + old
                /\ a1.input_state = <<"HexFirstDigit", k1[2]>>
                /\ a1.cursor = c
                /\ Len(a2.document.data) = grown
                /\ a2.document.data[c + 1] = (k1[2] * 16) + k2[2]
                /\ a2.cursor = c + 1
                /\ a2.input_state = <<"Normal">>

\* '4' then '1' were typed into the empty buffer
C10_Witness ==
    /\ document.data = <<65>>
    /\ document.undo_stack = <<<<"Insert", 0, 64>>, <<"Set", 0, 64, 65>>>>
    /\ cursor = 1
    /\ input_state = <<"Normal">>
    /\ edit_mode = "Overwrite"

----------------------------------------------------------------------------
(* Claims about the modes, checked under SpecModes.                        *)

\* how many elevated modes a state is in
ElevatedCount(a) ==
    (IF a.search_mode THEN 1 ELSE 0) + (IF a.replace_mode # "Off" THEN 1 ELSE 0)
        + (IF a.prompt_mode # "Off" THEN 1 ELSE 0)
        + (IF a.confirm_mode # <<"Off">> THEN 1 ELSE 0)

\* C5: in every state reached by logical actions passed to execute() and by
\* key and paste events, at most one of search_mode, replace_mode # Off,
\* prompt_mode # Off, confirm_mode # Off holds.
C5_AtMostOneElevatedMode == ElevatedCount(App) <= 1

\* the cancel inputs: Escape without modifiers, and Ctrl-G
CancelKeys == {Escape, CtrlG}

\* C6: from every elevated mode one cancel input, Escape without modifiers or
\* Ctrl-G, returns the controller to Normal: afterwards search_mode is false
\* and replace_mode, prompt_mode and confirm_mode are Off.
C6_CancelReturnsToNormal ==
    (ElevatedCount(App) = 1 /\ ~should_quit) =>
        \A key \in CancelKeys, env \in {EnvOk, EnvFail} :
            ~Elevated(handle_event(App, <<"Key", key>>, env))

----------------------------------------------------------------------------
(* Claims about query-replace, checked under SpecReplace.                  *)

\* query-replace asks about the match at the cursor: buffer "aaa", cursor 0,
\* pattern text "a", replacement text "bb"
C8Asked ==
    /\ ~search_mode /\ replace_mode = "Confirming"
    /\ document.data = Str(<<"a", "a", "a">>)
    /\ cursor = 0
    /\ search_query = Str(<<"a">>)
    /\ replace_with = Str(<<"b", "b">>)

\* the state after the answer '!'
C8Answered == handle_event(App, <<"Key", Plain(CharCode("!"))>>, EnvOk)

\* C8 as the code has it: query-replace on b"aaa" with cursor 0, pattern text
\* "a", replacement text "bb", answered with '!', ends with the buffer equal to
\* the three bytes 0xBB 0xBB 0xBB (the replacement text "bb" is two hex digits
\* and stands for the one byte 0xBB), a reported count of 3 and replace_mode
\* Off.
C8_ReplaceAllWritesHexByte ==
    C8Asked =>
        /\ C8Answered.document.data = <<187, 187, 187>>
        /\ C8Answered.status_message = Some(<<"Replaced occurrences", 3>>)
        /\ C8Answered.replace_mode = "Off"

\* C8 as stated: the same run ends with the buffer equal to b"bbbbbb" (six
\* bytes 0x62) and a reported count of 3.
C8_ReplaceAllWritesLiteralText ==
    C8Asked =>
        /\ C8Answered.document.data = Str(<<"b", "b", "b", "b", "b", "b">>)
        /\ C8Answered.status_message = Some(<<"Replaced occurrences", 3>>)

\* '!' was answered in the run of C8: three replacements, each one delete
\* and one insert
C8_Witness ==
    /\ replace_mode = "Off"
    /\ search_query = Str(<<"a">>)
    /\ replace_with = Str(<<"b", "b">>)
    /\ status_message = Some(<<"Replaced occurrences", 3>>)
    /\ Len(document.data) = 3
    /\ document.undo_stack =
           <<<<"Delete", 0, 97>>, <<"Insert", 0, 187>>,
             <<"Delete", 1, 97>>, <<"Insert", 1, 187>>,
             <<"Delete", 2, 97>>, <<"Insert", 2, 187>>>>

\* the pattern of the query-replace in progress matches at offset m
MatchAt(m) ==
    LET pattern == search_query_to_bytes(App) IN
    /\ pattern # <<>>
    /\ Document_get_range(document, m, m + Len(pattern)) = Some(pattern)

\* the answers that skip a match
SkipKeys == {Plain(CharCode("n")), Plain(<<"Delete">>)}

\* C9: in Confirming with the cursor on a match at offset m, the answer 'n' or
\* Delete leaves the buffer unchanged and either moves the cursor to the first
\* match at an offset greater than m or, when there is none, ends the
\* query-replace.
C9_SkipSeeksNextMatch ==
    (~search_mode /\ replace_mode = "Confirming" /\ MatchAt(cursor)) =>
        \A key \in SkipKeys :
            LET after == handle_event(App, <<"Key", key>>, EnvOk)
                later == {m \in (cursor + 1)..Len(document.data) : MatchAt(m)}
            IN  /\ after.document = document
                /\ IF later = {}
                   THEN after.replace_mode = "Off"
                   ELSE /\ after.replace_mode = "Confirming"
                        /\ after.cursor \in later
                        /\ \A m \in later : after.cursor <= m

----------------------------------------------------------------------------
(* Claims about byte entry in Insert mode, checked under SpecEdit.         *)

\* C11: in Insert mode with hex entry Normal and cursor c <= len, after a
\* first digit d1 the byte d1*16 is at c, the bytes before c are unchanged and
\* every byte previously at an offset >= c is one offset higher; after a second
\* digit d2 that byte is d1*16 + d2, the other bytes are where the first digit
\* left them, the length is the old length plus one and the cursor is c + 1.
C11_TwoHexDigitsInsert ==
    (edit_mode = "Insert" /\ input_state = <<"Normal">>
         /\ cursor <= Len(document.data)) =>
        \A k1 \in C10Digits, k2 \in C10Digits, env \in {EnvOk, EnvFail} :
            LET c    == cursor
                old  == document.data
                a1   == execute(App, <<"InputHex", k1[1]>>, env)
                a2   == execute(a1, <<"InputHex", k2[1]>>, env)
                Shifted(new) ==
                    /\ Len(new) = Len(old) + 1
                    /\ \A i \in 1..c : new[i] = old[i]
                    /\ \A i \in (c + 1)..Len(old) : new[i + 1] = old[i]
            IN  /\ Shifted(a1.document.data)
                /\ a1.document.data[c + 1] = k1[2] * 16
                /\ a1.input_state = <<"HexFirstDigit", k1[2]>>
                /\ a1.cursor = c
                /\ Shifted(a2.document.data)
                /\ a2.document.data[c + 1] = (k1[2] * 16) + k2[2]
                /\ a2.cursor = c + 1
                /\ a2.input_state = <<"Normal">>

\* Insert was pressed, then '4' and '1' were typed into the empty buffer
C11_Witness ==
    /\ edit_mode = "Insert"
    /\ document.data = <<65>>
    /\ document.undo_stack = <<<<"Insert", 0, 64>>, <<"Set", 0, 64, 65>>>>
    /\ cursor = 1
    /\ input_state = <<"Normal">>

----------------------------------------------------------------------------
(* The associated functions of App called on their own: any text, any      *)
(* data, any pattern, any offset: one call in each run. call holds the     *)
(* function, its arguments and what it returned.                           *)

\* the sequences of length at most n over the set S
SeqsUpTo(S, n) == UNION {[1..k -> S] : k \in 0..n}

\* longest text drawn from the alphabet
HexMaxText == 3

\* hex digits in three forms, the prefix letter, a separator, a letter that is
\* no hex digit
HexAlphabet ==
    {Ch("0"), Ch("F"), Ch("f"), FullWidth(Ch("F")), Ch("x"), Ch(" "), Ch("g")}

\* texts that are named one by one
HexExamples ==
    {Str(<<"D", "E", " ", "A", "D", " ", "B", "E", " ", "E", "F">>),
     Str(<<"d", "e", "a", "d", "b", "e", "e", "f">>),
     <<FullWidth(Ch("F")), FullWidth(Ch("F"))>>,
     Str(<<"0", "x", "F", "F">>),
     Str(<<"a", "b", "c">>),
     Str(<<"b", "a", "d", " ", "i", "d", "e", "a">>)}

HexTexts == SeqsUpTo(HexAlphabet, HexMaxText) \cup HexExamples

\* longest data searched
SearchMaxLen == 3

\* longest pattern searched for
PatMaxLen == 2

SearchBytes == {1, 2}

SearchData == SeqsUpTo(SearchBytes, SearchMaxLen) \cup {<<1, 2, 3, 2>>}

SearchPatterns == SeqsUpTo(SearchBytes, PatMaxLen)

\* offsets handed to the searches: inside the data, its end, and beyond
SearchOffsets == 0..(SearchMaxLen + 2)

InitCalls ==
    /\ InitApp
    /\ InitCaller
    /\ document = Document_new

\* what a call of an associated function leaves alone: all of the editor
calleeVars == <<document, appVars, pre, phase, mark, n_seq, n_rec, n_undo, n_redo>>

CallLooksLikeHex ==
    /\ call = NoCall
    /\ \E t \in HexTexts :
        /\ call' = <<"looks_like_hex", <<t>>, looks_like_hex(t)>>
        /\ UNCHANGED calleeVars

CallFindPattern ==
    /\ call = NoCall
    /\ \E data \in SearchData, pattern \in SearchPatterns, start \in SearchOffsets :
        /\ call' = <<"find_pattern", <<data, pattern, start>>,
                     find_pattern(data, pattern, start)>>
        /\ UNCHANGED calleeVars

CallFindPatternReverse ==
    /\ call = NoCall
    /\ \E data \in SearchData, pattern \in SearchPatterns, end \in SearchOffsets :
        /\ call' = <<"find_pattern_reverse", <<data, pattern, end>>,
                     find_pattern_reverse(data, pattern, end)>>
        /\ UNCHANGED calleeVars

\* the bytes of one text as each feature reads it: pasted, as the search
\* query, as the replacement
CallToBytes ==
    /\ call = NoCall
    /\ \E t \in HexTexts :
        /\ call' = <<"to_bytes", <<t>>,
                     <<PasteBytes(t),
                       search_query_to_bytes([App EXCEPT !.search_query = t]),
                       replace_with_to_bytes([App EXCEPT !.replace_with = t])>>>>
        /\ UNCHANGED calleeVars

\* one text handed to bx's parse_hex and to the editor's looks_like_hex and
\* normalized_hex_to_bytes
CallParseHex ==
    /\ call = NoCall
    /\ \E t \in HexTexts :
        /\ call' = <<"parse_hex", <<t>>,
                     <<parse_hex(t), looks_like_hex(t), normalized_hex_to_bytes(t)>>>>
        /\ UNCHANGED calleeVars

\* longest input of bx replace
BxMaxLen == 4

\* the inputs of bx replace: texts of 'a' and 'b'
BxData == SeqsUpTo({97, 98}, BxMaxLen)

\* the patterns and replacements of bx replace, as hex texts: "a", "ab",
\* nothing, "c", "cc", and a text with an odd number of digits
BxTexts ==
    {Str(<<"6", "1">>), Str(<<"6", "1", "6", "2">>), <<>>, Str(<<"6", "3">>),
     Str(<<"6", "3", "6", "3">>), Str(<<"6">>)}

\* bx replace <from> <to> [--all] on one input
CallCmdReplace ==
    /\ call = NoCall
    /\ \E data \in BxData, from \in BxTexts, to \in BxTexts, all \in BOOLEAN :
        /\ call' = <<"cmd_replace", <<from, to, data, all>>,
                     cmd_replace(from, to, data, all)>>
        /\ UNCHANGED calleeVars

NextCalls ==
    \/ CallLooksLikeHex
    \/ CallFindPattern
    \/ CallFindPatternReverse
    \/ CallToBytes
    \/ CallParseHex
    \/ CallCmdReplace

SpecCalls == InitCalls /\ [][NextCalls]_vars

----------------------------------------------------------------------------
(* Claims about the associated functions, checked under SpecCalls.         *)

\* the function called, its arguments, what it returned
CalledFn(name) == call # NoCall /\ call[1] = name
CallArg(i) == call[2][i]
CallResult == call[3]

\* the texts C12 names as hex
C12Accepted ==
    {Str(<<"D", "E", " ", "A", "D", " ", "B", "E", " ", "E", "F">>),
     Str(<<"d", "e", "a", "d", "b", "e", "e", "f">>),
     <<FullWidth(Ch("F")), FullWidth(Ch("F"))>>,
     Str(<<"0", "x", "F", "F">>)}

\* C12: looks_like_hex returns true for "DE AD BE EF", "deadbeef", full-width
\* "FF" and "0xFF", and false for "abc".
C12_NamedTextsClassified ==
    CalledFn("looks_like_hex") =>
        /\ CallArg(1) \in C12Accepted => CallResult = TRUE
        /\ CallArg(1) = Str(<<"a", "b", "c">>) => CallResult = FALSE

\* a text without its separators: whitespace, commas, braces and the letters
\* of the 0x prefix
WithoutSeparators(t) ==
    LET Kept(c) == ~IsHexSeparator(c) IN SelectSeq(t, Kept)

\* C13: looks_like_hex(text) is true only if, once the separators alone are
\* removed, the rest is non-empty, of even length, and every character of it
\* is a hex digit in half-width or full-width form: a text that holds any
\* other character is not hex.
C13_HexOnlyWithoutOtherCharacters ==
    (CalledFn("looks_like_hex") /\ CallResult = TRUE) =>
        LET rest == WithoutSeparators(CallArg(1)) IN
        /\ rest # <<>>
        /\ Len(rest) % 2 = 0
        /\ \A i \in 1..Len(rest) : normalize_hex_char(rest[i]) # None

\* the offsets p >= from at which pattern occurs in data
OccurrencesFrom(data, pattern, from) ==
    {p \in from..Len(data) :
        /\ p + Len(pattern) <= Len(data)
        /\ \A i \in 1..Len(pattern) : data[p + i] = pattern[i]}

\* C14: find_pattern(data, pattern, from) returns the smallest offset p >= from
\* at which pattern occurs in data, and nothing when the pattern is empty, when
\* it does not fit at or after from, or when it does not occur there; on
\* [1,2,3,2] with pattern [2] it returns 1 from 0, 3 from 2 and nothing from 4.
C14_FindForwardFirstAtOrAfter ==
    CalledFn("find_pattern") =>
        LET data    == CallArg(1)
            pattern == CallArg(2)
            from    == CallArg(3)
            hits    == OccurrencesFrom(data, pattern, from)
        IN  /\ IF pattern = <<>> \/ hits = {}
               THEN CallResult = None
               ELSE /\ CallResult # None
                    /\ CallResult[1] \in hits
                    /\ \A q \in hits : CallResult[1] <= q
            /\ (data = <<1, 2, 3, 2>> /\ pattern = <<2>>) =>
                   /\ from = 0 => CallResult = Some(1)
                   /\ from = 2 => CallResult = Some(3)
                   /\ from = 4 => CallResult = None

\* find_pattern was called on [1,2,3,2] with pattern [2] from 2 and found 3
C14_Witness ==
    call = <<"find_pattern", <<<<1, 2, 3, 2>>, <<2>>, 2>>, Some(3)>>

\* C15: find_pattern_reverse(data, pattern, before) returns the greatest
\* offset p < before at which pattern occurs in data, for a pattern of any
\* length, an occurrence that reaches or passes before included, and nothing
\* when the pattern is empty or there is no such p.
C15_FindBackwardLastStartingBefore ==
    CalledFn("find_pattern_reverse") =>
        LET data    == CallArg(1)
            pattern == CallArg(2)
            before  == CallArg(3)
            hits    == {p \in OccurrencesFrom(data, pattern, 0) : p < before}
        IN  IF pattern = <<>> \/ hits = {}
            THEN CallResult = None
            ELSE /\ CallResult # None
                 /\ CallResult[1] \in hits
                 /\ \A q \in hits : CallResult[1] >= q

\* C23: the hex-or-literal reading is the same function in every feature:
\* for every text, the bytes used when it is pasted, when it is the search
\* query and when it is the replacement text are the same.
C23_SameBytesInEveryFeature ==
    CalledFn("to_bytes") =>
        /\ CallResult[1] = CallResult[2]
        /\ CallResult[2] = CallResult[3]

\* "0F " was read, as the byte 0x0F, by all three
C23_Witness ==
    call = <<"to_bytes", <<Str(<<"0", "F", " ">>)>>, <<<<15>>, <<15>>, <<15>>>>>>

\* C27: bx parses hex text by the rules of the editor: for every text,
\* parse_hex succeeds exactly when looks_like_hex accepts the text, and then
\* parse_hex and normalized_hex_to_bytes give the same bytes.
C27_BxParsesHexLikeTheEditor ==
    CalledFn("parse_hex") =>
        LET parsed   == CallResult[1]
            accepted == CallResult[2]
            bytes    == CallResult[3]
        IN  /\ (parsed # None) <=> accepted
            /\ accepted => (bytes # None /\ parsed = bytes)

\* data with every occurrence of from_bytes at the offsets given, none of
\* which overlaps the next, replaced by to_bytes
RECURSIVE ReplacedAt(_, _, _, _, _)
ReplacedAt(data, offsets, n, to_bytes, i) ==
    IF offsets = <<>> THEN SubSeq(data, i + 1, Len(data))
    ELSE SubSeq(data, i + 1, offsets[1]) \o to_bytes
             \o ReplacedAt(data, Tail(offsets), n, to_bytes, offsets[1] + n)

\* C34: bx replace --all never indexes outside the data and, the occurrences
\* of the pattern not overlapping one another, writes the input with each
\* occurrence replaced at its original offset, also when pattern and
\* replacement differ in length.
C34_BxReplaceAllAtOriginalOffsets ==
    (CalledFn("cmd_replace") /\ CallArg(4) /\ CallResult # <<"Err">>) =>
        LET from_bytes == parse_hex(CallArg(1))[1]
            to_bytes   == parse_hex(CallArg(2))[1]
            data       == CallArg(3)
            n          == Len(from_bytes)
            matches    == bx_find_pattern(data, from_bytes)
            apart      == \A i \in 1..(Len(matches) - 1) : matches[i] + n <= matches[i + 1]
        IN  /\ CallResult # <<"Panic">>
            /\ apart => CallResult = <<"Ok", ReplacedAt(data, matches, n, to_bytes, 0)>>

----------------------------------------------------------------------------
(* The goto-address and command prompts on buffers of 0 and of 16 bytes.   *)

\* longest text typed into a prompt
GotoMaxText == 4

\* buffers of 0 and of 16 (0x10) bytes
GotoContents == {<<>>, [i \in 1..16 |-> 0]}

GotoLimits == Limits(16, 0, GotoMaxText, {EnvOk})

\* the prompts opened: goto address, and the command fill, which asks for
\* its argument when there is a selection
GotoActions == {<<"StartGoto">>, <<"ExecuteCommand">>, <<"StartSelection">>}

\* keys of the prompts: digits, the prefix letter, the short name of the
\* command fill
GotoKeys ==
    {Plain(CharCode("0")), Plain(CharCode("1")), Plain(CharCode("x")),
     Plain(CharCode("f")), Plain(<<"Enter">>), CtrlG}

InitGoto == InitEditor(GotoContents)

NextGoto ==
    \/ ExecuteAction(GotoActions, GotoLimits)
    \/ PromptKey(GotoKeys, GotoLimits)

SpecGoto == InitGoto /\ [][NextGoto]_vars

----------------------------------------------------------------------------
(* Claims about the prompts, checked under SpecGoto.                       *)

\* Enter arrives at the prompt named mode, and at no other handler
AtPrompt(mode) == ~should_quit /\ ~search_mode /\ replace_mode = "Off" /\ prompt_mode = mode

\* the state after Enter
AfterEnter == handle_event(App, <<"Key", Plain(<<"Enter">>)>>, EnvOk)

\* C16: goto-address accepts a parsed address a exactly when a <= len: the
\* cursor becomes a, a = len included; when a > len the cursor is unchanged and
\* the message reports the address and the buffer length. With length 16,
\* "0x10" puts the cursor at 16 and "0x11" is rejected.
C16_GotoAcceptsUpToLength ==
    AtPrompt("GotoAddress") =>
        LET input == trim(prompt_input)
            len   == Len(document.data)
            Rejected(addr) ==
                /\ AfterEnter.cursor = cursor
                /\ AfterEnter.status_message =
                       Some(<<"Address exceeds file size", addr, len>>)
        IN  /\ (input # <<>> /\ parse_address(input) # None) =>
                   LET addr == parse_address(input)[1] IN
                   IF addr <= len
                   THEN /\ AfterEnter.cursor = addr
                        /\ AfterEnter.status_message = Some(<<"Jumped to", addr>>)
                   ELSE Rejected(addr)
            /\ (len = 16 /\ prompt_input = Str(<<"0", "x", "1", "0">>)) =>
                   AfterEnter.cursor = 16
            /\ (len = 16 /\ prompt_input = Str(<<"0", "x", "1", "1">>)) =>
                   Rejected(17)

\* "0x10" was entered at the goto prompt of a buffer of 16 bytes
C16_Witness ==
    /\ Len(document.data) = 16
    /\ prompt_mode = "Off"
    /\ prompt_input = Str(<<"0", "x", "1", "0">>)
    /\ cursor = 16
    /\ status_message = Some(<<"Jumped to", 16>>)

\* the messages of a text that does not parse
ParseFailures ==
    {Some(<<"Invalid address">>), Some(<<"Invalid byte value">>), Some(<<"Invalid count">>)}

\* C17: when Enter is pressed in the goto-address prompt or in the prompt for
\* the argument of a command and the text does not parse, the message is shown
\* and the controller stays in the prompt it was in.
C17_FailedParseKeepsPrompt ==
    \A mode \in {"GotoAddress", "CommandArg"} :
        (AtPrompt(mode) /\ AfterEnter.status_message \in ParseFailures) =>
            AfterEnter.prompt_mode = mode

\* C17 as the code has it: when Enter is pressed in the goto-address prompt or
\* in the prompt for the argument of a command and the text does not parse,
\* the message is shown and the controller leaves the prompt for Normal mode;
\* the buffer and the cursor are unchanged.
C17_FailedParseLeavesPrompt ==
    \A mode \in {"GotoAddress", "CommandArg"} :
        (AtPrompt(mode) /\ confirm_mode = <<"Off">>
             /\ AfterEnter.status_message \in ParseFailures) =>
            /\ ~Elevated(AfterEnter)
            /\ AfterEnter.document = document
            /\ AfterEnter.cursor = cursor

\* "0x" was entered at the goto prompt
C17_Witness ==
    /\ prompt_mode = "Off"
    /\ prompt_input = Str(<<"0", "x">>)
    /\ status_message = Some(<<"Invalid address">>)

----------------------------------------------------------------------------
(* The unsaved-changes guard: Quit, KillBuffer and the open-file prompt on  *)
(* changed and unchanged buffers, in a world where saving and opening work  *)
(* and in one where they fail.                                              *)

\* longest buffer while the guard is exercised
ConfirmMaxLen == 1

\* most operations in the logs while the guard is exercised
ConfirmMaxHist == 1

\* longest path typed into the open-file prompt
ConfirmMaxText == 1

ConfirmEnvs == {EnvOk, EnvFail}

ConfirmLimits == Limits(ConfirmMaxLen, ConfirmMaxHist, ConfirmMaxText, ConfirmEnvs)

\* the buffer at the start: the byte 'A'
ConfirmContents == {<<65>>}

ConfirmActions == {<<"Quit">>, <<"KillBuffer">>, <<"OpenFile">>}

\* keys in Normal mode: a hex digit, which changes the buffer, and C-x C-c
ConfirmNormalKeys == {Plain(CharCode("4")), Ctrl("x"), Ctrl("c")}

\* keys of the open-file prompt
ConfirmEntryKeys == {Plain(CharCode("f")), Plain(<<"Enter">>), CtrlG}

\* the answers: yes, no, and the three ways to cancel
ConfirmAnswerKeys ==
    {Plain(CharCode("y")), Plain(CharCode("n")), Plain(CharCode("c")), Escape, CtrlG}

InitConfirm == InitEditor(ConfirmContents)

NextConfirm ==
    \/ ExecuteAction(ConfirmActions, ConfirmLimits)
    \/ NormalKey(ConfirmNormalKeys, ConfirmLimits)
    \/ PromptKey(ConfirmEntryKeys, ConfirmLimits)
    \/ ConfirmKey(ConfirmAnswerKeys, ConfirmLimits)

SpecConfirm == InitConfirm /\ [][NextConfirm]_vars

----------------------------------------------------------------------------
(* Claims about the unsaved-changes guard, checked under SpecConfirm.      *)

\* a key arrives at handle_confirm_key, and at no other handler
InConfirm ==
    /\ ~should_quit /\ ~search_mode /\ replace_mode = "Off" /\ prompt_mode = "Off"
    /\ confirm_mode # <<"Off">>

\* the state after a key
AfterKey(key, env) == handle_event(App, <<"Key", key>>, env)

\* b is the editor after the pending action `mode` was performed on the
\* document doc
Performed(b, mode, doc, env) ==
    /\ b.confirm_mode = <<"Off">>
    /\ CASE mode[1] = "Quit" -> b.should_quit /\ b.document = doc
         [] mode[1] = "KillBuffer" -> ~b.should_quit /\ b.document = Document_new
         [] mode[1] = "OpenFile" ->
                /\ ~b.should_quit
                /\ b.document = IF trim(mode[2]) # <<>> /\ env.file # None
                                THEN Document_open(Some(trim(mode[2])), env.file[1])
                                ELSE doc

\* the keys that cancel a confirmation
ConfirmCancelKeys == {Plain(CharCode("c")), Escape, CtrlG}

\* C18: on a document whose modified flag is true, Quit, KillBuffer and Enter
\* in the open-file prompt do not act but enter the matching confirm state;
\* there 'y' saves and then performs the pending action, 'n' performs it
\* without saving, and cancel performs nothing. should_quit becomes true only
\* by Quit on an unmodified document, or by 'y' with a successful save or 'n'
\* while a quit is pending.
C18_UnsavedChangesGuard ==
    \A env \in ConfirmEnvs :
        /\ (~should_quit /\ Document_is_modified(document)) =>
               /\ LET b == execute(App, <<"Quit">>, env) IN
                      /\ b.confirm_mode = <<"Quit">>
                      /\ ~b.should_quit /\ b.document = document
               /\ LET b == execute(App, <<"KillBuffer">>, env) IN
                      /\ b.confirm_mode = <<"KillBuffer">>
                      /\ b.document = document
               /\ AtPrompt("OpenFile") =>
                      LET b == AfterKey(Plain(<<"Enter">>), env) IN
                      /\ b.confirm_mode = <<"OpenFile", prompt_input>>
                      /\ b.prompt_mode = "Off"
                      /\ b.document = document
        /\ InConfirm =>
               /\ LET saved == Document_save(document, env.io_ok) IN
                  saved.res = <<"Ok">> =>
                      /\ ~Document_is_modified(saved.doc)
                      /\ Performed(AfterKey(Plain(CharCode("y")), env), confirm_mode,
                                   saved.doc, env)
               /\ Performed(AfterKey(Plain(CharCode("n")), env), confirm_mode,
                            document, env)
               /\ \A key \in ConfirmCancelKeys :
                      LET b == AfterKey(key, env) IN
                      /\ b.confirm_mode = <<"Off">>
                      /\ ~b.should_quit
                      /\ b.document = document
        /\ ~should_quit =>
               /\ \A key \in ConfirmNormalKeys \cup ConfirmEntryKeys \cup ConfirmAnswerKeys :
                      AfterKey(key, env).should_quit =>
                          \/ /\ ~Elevated(App)
                             /\ ~Document_is_modified(document)
                             /\ key = Ctrl("c") /\ prefix_key = "CtrlX"
                          \/ /\ InConfirm /\ confirm_mode = <<"Quit">>
                             /\ \/ key = Plain(CharCode("n"))
                                \/ /\ key = Plain(CharCode("y"))
                                   /\ Document_save(document, env.io_ok).res = <<"Ok">>
               /\ \A action \in ConfirmActions :
                      execute(App, action, env).should_quit =>
                          action = <<"Quit">> /\ ~Document_is_modified(document)

\* the session ended by 'y' while a quit was pending: the changed document was
\* saved
C18_Witness ==
    /\ should_quit
    /\ confirm_mode = <<"Off">>
    /\ document.undo_stack # <<>>
    /\ ~Document_is_modified(document)

\* C19: when 'y' is answered in a confirm state and the save fails, the
\* failure is reported as a message and nothing else happens: should_quit
\* stays false, the document (its bytes, its path, its modified flag, its
\* logs) is the one before, and the controller is back in Normal mode.
C19_FailedSaveAbandonsPending ==
    InConfirm =>
        \A env \in ConfirmEnvs :
            Document_save(document, env.io_ok).res # <<"Ok">> =>
                LET b == AfterKey(Plain(CharCode("y")), env) IN
                /\ b.status_message = Some(<<"Save failed">>)
                /\ ~b.should_quit
                /\ b.document = document
                /\ Document_is_modified(b.document) = Document_is_modified(document)
                /\ b.cursor = cursor
                /\ ~Elevated(b)

\* 'y' was answered and the save failed: the changed document is still there
C19_Witness ==
    /\ status_message = Some(<<"Save failed">>)
    /\ confirm_mode = <<"Off">>
    /\ ~should_quit
    /\ Document_is_modified(document)
    /\ document.data # <<>>

----------------------------------------------------------------------------
(* The modified flag after each call, checked under SpecDoc.               *)

\* C20: right after an undo() that returns an offset, modified equals (the
\* undo log is non-empty); right after a set() that changes a byte, an
\* insert(), a delete() and a redo() that returns an offset, modified is true.
C20_ModifiedFollowsUndoLog ==
    /\ (call[1] = "undo" /\ call[3] # None) =>
           Document_is_modified(document) = (document.undo_stack # <<>>)
    /\ (call[1] = "set" /\ call[3] = <<"Ok">> /\ document.data # pre.data) =>
           Document_is_modified(document)
    /\ (call[1] = "insert" /\ call[3] = <<"Ok">>) => Document_is_modified(document)
    /\ (call[1] = "delete" /\ call[3][1] = "Ok") => Document_is_modified(document)
    /\ (call[1] = "redo" /\ call[3] # None) => Document_is_modified(document)

\* undo() returned an offset on a saved document and emptied the undo log:
\* the flag is false again
C20_Witness ==
    /\ call[1] = "undo" /\ call[3] # None
    /\ document.undo_stack = <<>>
    /\ Document_is_modified(pre)
    /\ ~Document_is_modified(document)

----------------------------------------------------------------------------
(* The Document on buffers of up to three bytes: single calls of insert,   *)
(* delete, set, undo and redo, each observed with its result.              *)

\* longest buffer while the returned offsets are observed
PosMaxLen == 3

\* most operations in the logs while the returned offsets are observed
PosMaxHist == 2

\* the buffers at the start
PosContents == {<<>>, <<0, 0>>}

\* positions a caller passes: every offset of the buffer and its end
PosArgs == 0..PosMaxLen

InitPos ==
    /\ \E bytes \in PosContents : document = Document_from_bytes(bytes)
    /\ InitApp
    /\ InitCaller

\* a call and what it leaves behind
Observed(name, args, r) ==
    /\ Len(r.doc.data) <= PosMaxLen
    /\ Len(r.doc.undo_stack) + Len(r.doc.redo_stack) <= PosMaxHist
    /\ document' = r.doc
    /\ pre' = document
    /\ call' = <<name, args, r.res>>

PosSet(pos) ==
    /\ Observed("set", <<pos, 65>>, Document_set(document, pos, 65))
    /\ UNCHANGED <<appVars, phase, mark, n_seq, n_rec, n_undo, n_redo>>

PosInsert(pos) ==
    /\ Observed("insert", <<pos, 0>>, Document_insert(document, pos, 0))
    /\ UNCHANGED <<appVars, phase, mark, n_seq, n_rec, n_undo, n_redo>>

PosDelete(pos) ==
    /\ Observed("delete", <<pos>>, Document_delete(document, pos))
    /\ UNCHANGED <<appVars, phase, mark, n_seq, n_rec, n_undo, n_redo>>

PosUndo ==
    /\ Observed("undo", <<>>, Document_undo(document))
    /\ UNCHANGED <<appVars, phase, mark, n_seq, n_rec, n_undo, n_redo>>

PosRedo ==
    /\ Observed("redo", <<>>, Document_redo(document))
    /\ UNCHANGED <<appVars, phase, mark, n_seq, n_rec, n_undo, n_redo>>

NextPos ==
    \/ \E pos \in PosArgs : PosSet(pos)
    \/ \E pos \in PosArgs : PosInsert(pos)
    \/ \E pos \in PosArgs : PosDelete(pos)
    \/ PosUndo
    \/ PosRedo

SpecPos == InitPos /\ [][NextPos]_vars

----------------------------------------------------------------------------
(* Claims about the offsets undo() and redo() return, checked under SpecPos. *)

\* p clamped into [0, len - 1]; 0 for an empty buffer
ClampIntoBuffer(p, len) == IF len = 0 THEN 0 ELSE Min(p, len - 1)

\* C21: undo() returns nothing exactly when the undo log is empty; otherwise
\* it returns the position of the undone operation (the insert or delete
\* point, the set position) clamped into [0, len - 1], len the length of the
\* buffer after the undo. redo() returns nothing exactly when the redo log is
\* empty, and otherwise the position of the redone operation clamped alike.
C21_UndoRedoReturnClampedPosition ==
    /\ call[1] = "undo" =>
           IF pre.undo_stack = <<>>
           THEN call[3] = None
           ELSE call[3] = Some(ClampIntoBuffer(VecLast(pre.undo_stack)[2],
                                               Len(document.data)))
    /\ call[1] = "redo" =>
           IF pre.redo_stack = <<>>
           THEN call[3] = None
           ELSE call[3] = Some(ClampIntoBuffer(VecLast(pre.redo_stack)[2],
                                               Len(document.data)))

----------------------------------------------------------------------------
(* Text entry: characters typed in either edit mode and either encoding.   *)

\* longest buffer while text is entered
TextMaxLen == 2

\* most operations in the logs while text is entered
TextMaxHist == 2

TextLimits == Limits(TextMaxLen, TextMaxHist, 0, {EnvOk})

TextContents == {<<65>>}

\* the characters typed: 'a', and U+00E9, two bytes in UTF-8
TextChars == {Ch("a"), 233}

TextActions ==
    {<<"ToggleEncoding">>, <<"ToggleEditMode">>, <<"Undo">>, <<"CursorLeft">>}
        \cup {<<"InputAscii", ch>> : ch \in TextChars}

InitText == InitEditor(TextContents)

NextText == ExecuteAction(TextActions, TextLimits)

SpecText == InitText /\ [][NextText]_vars

----------------------------------------------------------------------------
(* Claims about text entry, checked under SpecText.                        *)

\* C22: InputAscii(ch) for a character that has no bytes in the active
\* encoding reports a message and changes nothing: the bytes, the undo log,
\* the redo log, the modified flag and the cursor are as before, in Overwrite
\* and in Insert mode.
C22_UnencodableCharChangesNothing ==
    \A ch \in TextChars :
        encode_char(ch, encoding) = None =>
            LET b == execute(App, <<"InputAscii", ch>>, EnvOk) IN
            /\ b.status_message = Some(<<"Cannot encode", ch, encoding>>)
            /\ b.document = document
            /\ b.cursor = cursor
            /\ b.edit_mode = edit_mode

\* U+00E9 was typed in Insert mode in the single-byte encoding, with both logs
\* in use
C22_Witness ==
    /\ status_message = Some(<<"Cannot encode", 233, "SingleByte">>)
    /\ edit_mode = "Insert"
    /\ document.undo_stack # <<>>
    /\ document.redo_stack # <<>>

----------------------------------------------------------------------------
(* Selection: the mark, the motions and the shifted motions on a buffer of *)
(* two rows, with the digit 0 typed over its bytes in between.             *)

\* longest buffer while selecting: one row of 16 bytes and one byte more
SelectMaxLen == 17

\* most operations in the logs while selecting
SelectMaxHist == 0

SelectLimits == Limits(SelectMaxLen, SelectMaxHist, 0, {EnvOk})

SelectContents == {<<>>, [i \in 1..SelectMaxLen |-> 0]}

\* the actions that only move the cursor
MotionActions ==
    {<<"CursorUp">>, <<"CursorDown">>, <<"CursorLeft">>, <<"CursorRight">>,
     <<"CursorHome">>, <<"CursorEnd">>, <<"PageUp">>, <<"PageDown">>,
     <<"GotoBeginning">>, <<"GotoEnd">>}

SelectActions ==
    MotionActions
        \cup {<<"StartSelection">>, <<"ClearSelection">>, <<"Cancel">>,
              <<"SelectUp">>, <<"SelectDown">>, <<"SelectLeft">>, <<"SelectRight">>,
              <<"InputHex", Ch("0")>>}

InitSelect == InitEditor(SelectContents)

NextSelect == ExecuteAction(SelectActions, SelectLimits)

SpecSelect == InitSelect /\ [][NextSelect]_vars

----------------------------------------------------------------------------
(* Claims about the selection, checked under SpecSelect.                   *)

\* the range between the anchor and the cursor
Between(anchor, c) == IF anchor <= c THEN <<anchor, c>> ELSE <<c, anchor>>

\* C24: StartSelection sets the anchor to the cursor and the selection to
\* (cursor, cursor); ClearSelection clears both; with an anchor set, every
\* cursor-motion action leaves the selection at (min(anchor, cursor),
\* max(anchor, cursor)) for the anchor as it was and the cursor as it is after
\* the motion, so that this holds after StartSelection and any sequence of
\* motions; and in every reachable state a present selection (start, end) has
\* start <= end.
C24_SelectionTracksAnchorAndCursor ==
    /\ LET b == execute(App, <<"StartSelection">>, EnvOk) IN
          /\ b.selection_start = Some(cursor)
          /\ b.selection = Some(<<cursor, cursor>>)
          /\ b.cursor = cursor
    /\ LET b == execute(App, <<"ClearSelection">>, EnvOk) IN
          b.selection_start = None /\ b.selection = None
    /\ selection_start # None =>
          \A m \in MotionActions :
              LET b == execute(App, m, EnvOk) IN
              /\ b.selection_start = selection_start
              /\ b.selection = Some(Between(selection_start[1], b.cursor))
    /\ \A m1 \in MotionActions, m2 \in MotionActions :
          LET b0 == execute(App, <<"StartSelection">>, EnvOk)
              b1 == execute(b0, m1, EnvOk)
              b2 == execute(b1, m2, EnvOk)
          IN  /\ b1.selection = Some(Between(cursor, b1.cursor))
              /\ b2.selection = Some(Between(cursor, b2.cursor))
    /\ selection # None => selection[1][1] <= selection[1][2]

\* the mark was set on the second row and the cursor moved to the first: the
\* selection runs from the cursor to the anchor
C24_Witness ==
    /\ selection_start = Some(16)
    /\ cursor = 0
    /\ selection = Some(<<0, 16>>)

----------------------------------------------------------------------------
(* Edits of several bytes and their undoing: typed hex digits, typed       *)
(* characters, pasted blocks and replacements on a buffer of two bytes.    *)

\* longest buffer while the edits are undone
GrainMaxLen == 3

\* most operations in the logs while the edits are undone
GrainMaxHist == 3

\* longest pattern and replacement typed
GrainMaxText == 2

GrainLimits == Limits(GrainMaxLen, GrainMaxHist, GrainMaxText, {EnvOk})

\* the buffer at the start: "ag"
GrainContents == {Str(<<"a", "g">>)}

\* keys in Normal mode: M-%, Insert, C-u (undo)
GrainNormalKeys == {Alt("%"), Plain(<<"Insert">>), Ctrl("u")}

\* keys while the pattern and the replacement are typed
GrainEntryKeys == {Plain(CharCode("g")), Plain(<<"Enter">>)}

\* answers during Confirming
GrainAnswerKeys == {Plain(CharCode("y")), Plain(CharCode("n"))}

InitGrain == InitEditor(GrainContents)

NextGrain ==
    \/ NormalKey(GrainNormalKeys, GrainLimits)
    \/ ReplaceKey(GrainEntryKeys, GrainLimits)
    \/ AnswerKey(GrainAnswerKeys, GrainLimits)

SpecGrain == InitGrain /\ [][NextGrain]_vars

----------------------------------------------------------------------------
(* Claims about the granularity of undo, checked under SpecGrain.          *)

\* the editor after k Undo actions
RECURSIVE UndoTimes(_, _)
UndoTimes(a, k) ==
    IF k = 0 THEN a ELSE UndoTimes(execute(a, <<"Undo">>, EnvOk), k - 1)

\* how many of the bytes written over the buffer from offset c on change it
\* or extend it
WritesThatChange(data, c, bytes) ==
    Cardinality({i \in 1..Len(bytes) :
                     (c + i) > Len(data) \/ data[c + i] # bytes[i]})

\* b is the editor after an edit of a that performed n byte operations: n
\* operations were added to the undo log, each Undo takes back one of them, and
\* n Undos are what brings the bytes back
RecordedPerByte(a, b, n) ==
    LET before == a.document.undo_stack
        after  == b.document.undo_stack
    IN  /\ Len(after) = Len(before) + n
        /\ SubSeq(after, 1, Len(before)) = before
        /\ \A k \in 1..n :
               /\ UndoTimes(b, k).document.undo_stack = SubSeq(after, 1, Len(after) - k)
               /\ UndoTimes(b, k).document.data =
                      UndoData(UndoTimes(b, k - 1).document.data, after[Len(after) - k + 1])
        /\ UndoTimes(b, n).document.data = a.document.data

\* the block of two bytes that is pasted
GrainPaste == Str(<<"g", "h">>)

\* the characters typed in text mode: U+00E9, two bytes in UTF-8
GrainChars == {233}

\* C25: undo works byte by byte. An edit of several bytes is recorded as
\* single-byte operations, one for each byte operation it performs: the two
\* digits of a hex byte, the bytes of an encoded character, the bytes of a
\* pasted block, the deletes and inserts of a replacement. One Undo takes back
\* exactly one of them, and as many Undos as operations bring the bytes back.
C25_UndoIsPerByteOperation ==
    /\ (~Elevated(App) /\ selection = None /\ cursor <= Len(document.data)
            /\ input_state = <<"Normal">>) =>
           LET data   == document.data
               pasted == handle_event(App, <<"Paste", GrainPaste>>, EnvOk)
               Typed(ch) == execute(App, <<"InputAscii", ch>>, EnvOk)
               digit1 == execute(App, <<"InputHex", Ch("4")>>, EnvOk)
               digit2 == execute(digit1, <<"InputHex", Ch("1")>>, EnvOk)
               Count(bytes) == IF edit_mode = "Insert" THEN Len(bytes)
                               ELSE WritesThatChange(data, cursor, bytes)
           IN  /\ RecordedPerByte(App, pasted, Count(as_bytes(GrainPaste)))
               /\ \A ch \in GrainChars :
                      RecordedPerByte(App, Typed(ch), Count(encode_utf8(ch)))
               /\ edit_mode = "Insert" => RecordedPerByte(App, digit2, 2)
    /\ (~should_quit /\ ~search_mode /\ replace_mode = "Confirming"
            /\ MatchAt(cursor)) =>
           RecordedPerByte(App, handle_event(App, <<"Key", Plain(CharCode("y"))>>, EnvOk),
                           Len(search_query_to_bytes(App)) + Len(replace_with_to_bytes(App)))

\* a replacement of one byte by two was made and one Undo was done: two of its
\* three operations are still in the undo log
C25_Witness ==
    /\ Len(document.undo_stack) = 2
    /\ Len(document.redo_stack) = 1
    /\ document.undo_stack[1][1] = "Delete"
    /\ document.undo_stack[2][1] = "Insert"
    /\ document.redo_stack[1][1] = "Insert"

----------------------------------------------------------------------------
(* Incremental search on the buffer "gag": queries typed, pasted and       *)
(* shortened, repeated forwards and backwards, confirmed and cancelled.    *)

\* longest buffer while searching
FindMaxLen == 3

\* most operations in the logs while searching
FindMaxHist == 1

\* longest query typed
FindMaxText == 2

FindLimits == Limits(FindMaxLen, FindMaxHist, FindMaxText, {EnvOk})

FindContents == {Str(<<"g", "a", "g">>)}

\* keys in Normal mode: C-s, C-r, Right
FindNormalKeys == {Ctrl("s"), Ctrl("r"), Plain(<<"Right">>)}

\* keys of the search that keep it going
FindQueryKeys ==
    {Plain(CharCode("a")), Plain(CharCode("g")), Plain(<<"Backspace">>),
     Ctrl("s"), Ctrl("r")}

\* keys of the search
FindKeys == FindQueryKeys \cup {Plain(<<"Enter">>), Escape, CtrlG}

FindPastes == {Str(<<"g">>)}

\* what can arrive while the search goes on
FindEvents ==
    {<<"Key", key>> : key \in FindQueryKeys} \cup {<<"Paste", t>> : t \in FindPastes}

InitFind == InitEditor(FindContents)

NextFind ==
    \/ NormalKey(FindNormalKeys, FindLimits)
    \/ SearchKey(FindKeys, FindLimits)
    \/ PasteEvent(FindPastes, FindLimits)

SpecFind == InitFind /\ [][NextFind]_vars

----------------------------------------------------------------------------
(* Claims about incremental search, checked under SpecFind.                *)

\* the editor after the search in a was cancelled with C-g
Cancelled(a) == handle_event(a, <<"Key", CtrlG>>, EnvOk)

\* C26: whenever incremental search is left by cancelling, the cursor is the
\* one search mode was entered with, whatever was typed, pasted or deleted in
\* the query in between, and the bytes of the buffer are the ones search mode
\* was entered with.
C26_CancelRestoresSearchAnchor ==
    /\ (~should_quit /\ ~Elevated(App)) =>
           \A name \in {"StartSearch", "StartSearchBack"} :
           \A e1 \in FindEvents, e2 \in FindEvents :
               LET a0 == execute(App, <<name>>, EnvOk)
                   a1 == handle_event(a0, e1, EnvOk)
                   a2 == handle_event(a1, e2, EnvOk)
               IN  \A a \in {a0, a1, a2} :
                       /\ a.search_mode
                       /\ ~Cancelled(a).search_mode
                       /\ ~Elevated(Cancelled(a))
                       /\ Cancelled(a).cursor = cursor
                       /\ Cancelled(a).document = document
    /\ (~should_quit /\ search_mode) =>
           /\ Cancelled(App).cursor = search_start_pos
           /\ Cancelled(App).document = document
           /\ \A e \in FindEvents :
                  LET b == handle_event(App, e, EnvOk) IN
                  /\ b.search_mode
                  /\ b.search_start_pos = search_start_pos
                  /\ b.document = document

\* a search entered at offset 1 found "g" at offset 2 and was cancelled: the
\* cursor is back at 1
C26_Witness ==
    /\ status_message = Some(<<"Cancelled">>)
    /\ ~search_mode
    /\ search_query = Str(<<"g">>)
    /\ search_start_pos = 1
    /\ cursor = 1

----------------------------------------------------------------------------
(* Query-replace with patterns and replacements of one and two bytes on a  *)
(* buffer of 'g's and 'h's.                                                *)

\* longest buffer during the replacements
SubstMaxLen == 6

\* most operations in the logs during the replacements
SubstMaxHist == 6

\* longest pattern and replacement typed
SubstMaxText == 2

SubstLimits == Limits(SubstMaxLen, SubstMaxHist, SubstMaxText, {EnvOk})

SubstContents == {Str(<<"g", "h", "g", "h">>)}

\* keys in Normal mode
SubstNormalKeys == {Alt("%")}

\* keys while the pattern and the replacement are typed
SubstEntryKeys == {Plain(CharCode("g")), Plain(CharCode("h")), Plain(<<"Enter">>)}

\* answers during Confirming
SubstAnswerKeys ==
    {Plain(CharCode("y")), Plain(CharCode("n")), Plain(CharCode("!")),
     Plain(CharCode("q"))}

InitSubst == InitEditor(SubstContents)

NextSubst ==
    \/ NormalKey(SubstNormalKeys, SubstLimits)
    \/ ReplaceKey(SubstEntryKeys, SubstLimits)
    \/ AnswerKey(SubstAnswerKeys, SubstLimits)

SpecSubst == InitSubst /\ [][NextSubst]_vars

----------------------------------------------------------------------------
(* Claims about the replacements of query-replace, checked under SpecSubst. *)

\* data with the n bytes from offset c on replaced by the bytes to
Spliced(data, c, n, to) == SubSeq(data, 1, c) \o to \o SubSeq(data, c + n + 1, Len(data))

\* the pattern F matches the data at offset m
OccursAt(data, F, m) == m + Len(F) <= Len(data) /\ SubSeq(data, m + 1, m + Len(F)) = F

\* C28: "replace current" with pattern bytes F and replacement bytes T at
\* cursor c: when the bytes at c .. c+|F| equal F they are replaced by T, the
\* bytes outside that range keep their values and order, and the cursor is
\* c+|T|; when they differ, or the range passes the end, buffer and cursor are
\* unchanged. The answer 'y' then seeks from that cursor: it stops on the
\* first occurrence at or after c+|T| or ends the query-replace when there is
\* none, so no occurrence starting in the bytes just inserted is offered.
C28_ReplaceCurrentSplicesAtCursor ==
    (~search_mode /\ replace_mode = "Confirming") =>
        LET F    == search_query_to_bytes(App)
            T    == replace_with_to_bytes(App)
            data == document.data
        IN  /\ F # <<>>
            /\ \A c \in 0..(Len(data) + 1) :
                   LET done == do_replace_current([App EXCEPT !.cursor = c]) IN
                   IF OccursAt(data, F, c)
                   THEN /\ done.document.data = Spliced(data, c, Len(F), T)
                        /\ done.cursor = c + Len(T)
                   ELSE /\ done.document = document
                        /\ done.cursor = c
            /\ LET done  == do_replace_current(App)
                   after == handle_event(App, <<"Key", Plain(CharCode("y"))>>, EnvOk)
                   later == {m \in done.cursor..Len(done.document.data) :
                                 OccursAt(done.document.data, F, m)}
               IN  /\ OccursAt(data, F, cursor)
                   /\ after.document = done.document
                   /\ IF later = {}
                      THEN after.replace_mode = "Off" /\ after.cursor = done.cursor
                      ELSE /\ after.replace_mode = "Confirming"
                           /\ after.cursor \in later
                           /\ \A m \in later : after.cursor <= m

\* 'y' replaced "g" at offset 0 of "ghgh" by "hg" and the seek went past the
\* inserted 'g' at offset 1 to the 'g' at offset 3
C28_Witness ==
    /\ replace_mode = "Confirming"
    /\ search_query = Str(<<"g">>)
    /\ replace_with = Str(<<"h", "g">>)
    /\ document.data = Str(<<"h", "g", "h", "g", "h">>)
    /\ cursor = 3

\* C29: "replace all remaining" ends for every buffer, every non-empty
\* pattern F and every replacement T, the empty one and those that contain F
\* included: each replacement uses up |F| bytes of the buffer from the cursor
\* on, so there are at most (len - cursor) / |F| of them. Afterwards
\* replace_mode is Off, no occurrence of F starts at or after the cursor, and
\* the reported count k is the number of replacements made: the undo log has
\* grown by k * (|F| + |T|) operations and the buffer by k * (|T| - |F|) bytes.
C29_ReplaceAllEndsWithNoneLeft ==
    (~search_mode /\ replace_mode = "Confirming") =>
        LET F     == search_query_to_bytes(App)
            T     == replace_with_to_bytes(App)
            after == handle_event(App, <<"Key", Plain(CharCode("!"))>>, EnvOk)
            data  == after.document.data
        IN  /\ F # <<>>
            /\ after.replace_mode = "Off"
            /\ \A m \in after.cursor..Len(data) : ~OccursAt(data, F, m)
            /\ \E k \in 1..Len(document.data) :
                   /\ after.status_message = Some(<<"Replaced occurrences", k>>)
                   /\ k * Len(F) <= Len(document.data) - cursor
                   /\ Len(after.document.undo_stack) =
                          Len(document.undo_stack) + (k * (Len(F) + Len(T)))
                   /\ Len(data) = Len(document.data) + (k * Len(T)) - (k * Len(F))

\* '!' replaced both "g" of "ghgh" by "hg", a replacement that contains the
\* pattern
C29_Witness ==
    /\ replace_mode = "Off"
    /\ search_query = Str(<<"g">>)
    /\ replace_with = Str(<<"h", "g">>)
    /\ document.data = Str(<<"h", "g", "h", "h", "g", "h">>)
    /\ status_message = Some(<<"Replaced occurrences", 2>>)
    /\ cursor = 5

----------------------------------------------------------------------------
(* The entry of a query-replace, with keys and pasted text, on "ghg".      *)

\* longest buffer during the entry
EntryMaxLen == 3

\* most operations in the logs during the entry
EntryMaxHist == 1

\* longest pattern and replacement typed
EntryMaxText == 2

EntryLimits == Limits(EntryMaxLen, EntryMaxHist, EntryMaxText, {EnvOk})

EntryContents == {Str(<<"g", "h", "g">>)}

\* keys in Normal mode: M-% and motion
EntryNormalKeys == {Alt("%"), Plain(<<"Right">>)}

\* keys while the pattern and the replacement are typed
EntryKeys ==
    {Plain(CharCode("g")), Plain(CharCode("h")), Plain(<<"Backspace">>),
     Plain(<<"Enter">>), CtrlG}

\* answers during Confirming
EntryAnswerKeys == {Plain(CharCode("n")), Plain(CharCode("q"))}

\* texts pasted by the terminal
EntryPastes == {Str(<<"h">>)}

InitEntry == InitEditor(EntryContents)

NextEntry ==
    \/ NormalKey(EntryNormalKeys, EntryLimits)
    \/ ReplaceKey(EntryKeys, EntryLimits)
    \/ AnswerKey(EntryAnswerKeys, EntryLimits)
    \/ PasteEvent(EntryPastes, EntryLimits)

SpecEntry == InitEntry /\ [][NextEntry]_vars

----------------------------------------------------------------------------
(* Claims about the entry of a query-replace, checked under SpecEntry.     *)

\* the state after one event
AfterEvent(event) == handle_event(App, event, EnvOk)

\* StartReplace, and Enter while the pattern and while the replacement is
\* typed, move through the sub-states as the protocol has it
EntryStepsFollowProtocol ==
    /\ (~should_quit /\ ~Elevated(App)) =>
           LET s == execute(App, <<"StartReplace">>, EnvOk) IN
           /\ s.replace_mode = "EnteringSearch"
           /\ s.search_query = <<>> /\ s.replace_with = <<>>
           /\ s.document = document
    /\ (~search_mode /\ replace_mode = "EnteringSearch") =>
           LET s == AfterEvent(<<"Key", Plain(<<"Enter">>)>>) IN
           /\ s.replace_mode = IF search_query = <<>> THEN "Off" ELSE "EnteringReplace"
           /\ s.document = document
    /\ (~search_mode /\ replace_mode = "EnteringReplace") =>
           LET s       == AfterEvent(<<"Key", Plain(<<"Enter">>)>>)
               F       == search_query_to_bytes(App)
               matches == {m \in cursor..Len(document.data) :
                               OccursAt(document.data, F, m)}
           IN  /\ F # <<>>
               /\ s.document = document
               /\ IF matches = {}
                  THEN s.replace_mode = "Off"
                  ELSE /\ s.replace_mode = "Confirming"
                       /\ s.cursor \in matches
                       /\ \A m \in matches : s.cursor <= m

\* the events handled while the pattern or the replacement is typed
EntryEvents == {<<"Key", key>> : key \in EntryKeys} \cup {<<"Paste", t>> : t \in EntryPastes}

\* C30: StartReplace enters EnteringSearch with empty pattern and
\* replacement; Enter in EnteringSearch ends the query-replace when the
\* pattern text is empty and moves to EnteringReplace otherwise; Enter in
\* EnteringReplace moves to Confirming with the cursor on the first match at
\* or after the cursor, or ends the query-replace when there is none; and no
\* event handled before Confirming, a key or a paste, changes the buffer.
C30_EntryProtocolKeepsBuffer ==
    /\ EntryStepsFollowProtocol
    /\ (~search_mode /\ replace_mode \in {"EnteringSearch", "EnteringReplace"}) =>
           \A event \in EntryEvents : AfterEvent(event).document.data = document.data

----------------------------------------------------------------------------
(* Searches on the buffer "gag" that are typed, shortened, repeated in both *)
(* directions and confirmed.                                               *)

\* longest buffer while seeking
SeekMaxLen == 3

\* longest query typed while seeking
SeekMaxText == 2

SeekLimits == Limits(SeekMaxLen, 0, SeekMaxText, {EnvOk})

SeekContents == {Str(<<"g", "a", "g">>)}

\* keys in Normal mode: C-s, C-r, Right
SeekNormalKeys == {Ctrl("s"), Ctrl("r"), Plain(<<"Right">>)}

\* keys of the search
SeekKeys ==
    {Plain(CharCode("a")), Plain(CharCode("g")), Plain(<<"Backspace">>),
     Ctrl("s"), Ctrl("r"), Plain(<<"Enter">>)}

InitSeek == InitEditor(SeekContents)

NextSeek ==
    \/ NormalKey(SeekNormalKeys, SeekLimits)
    \/ SearchKey(SeekKeys, SeekLimits)

SpecSeek == InitSeek /\ [][NextSeek]_vars

----------------------------------------------------------------------------
(* Claims about the keys of a search, checked under SpecSeek.              *)

\* the least offset of a set of offsets
Least(S) == CHOOSE m \in S : \A n \in S : m <= n

\* the keys that lengthen or shorten the query
QueryEditKeys ==
    {Plain(CharCode("a")), Plain(CharCode("g")), Plain(CharCode("x")),
     Plain(<<"Backspace">>)}

\* C31: during an incremental search, after a character is appended to the
\* query, or a backspace leaves it non-empty, the cursor is on the first
\* occurrence of the bytes of the query at or after search_start_pos, or when
\* there is none on the first occurrence in the buffer, or when there is none
\* at all where the key found it; after a backspace that leaves the query
\* empty the cursor is search_start_pos; and the document is unchanged.
C31_IncrementalSearchFollowsQuery ==
    (search_mode /\ ~should_quit) =>
        \A key \in QueryEditKeys :
            LET after   == handle_event(App, <<"Key", key>>, EnvOk)
                typed   == IF key.code[1] = "Char"
                           THEN Append(search_query, key.code[2])
                           ELSE SubSeq(search_query, 1, Len(search_query) - 1)
                data    == document.data
                pattern == search_query_to_bytes(after)
                all     == {m \in 0..Len(data) : OccursAt(data, pattern, m)}
                onward  == {m \in all : m >= search_start_pos}
            IN  /\ after.search_query = typed
                /\ after.document = document
                /\ after.search_mode
                /\ after.cursor = IF typed = <<>> THEN search_start_pos
                                  ELSE IF onward # {} THEN Least(onward)
                                  ELSE IF all # {} THEN Least(all)
                                  ELSE cursor

\* 'a' was typed in a search started at offset 2 of "gag": no 'a' from
\* there on, the cursor is on the 'a' at offset 1
C31_Witness ==
    /\ search_mode
    /\ document.data = Str(<<"g", "a", "g">>)
    /\ search_start_pos = 2
    /\ search_query = Str(<<"a">>)
    /\ cursor = 1

\* the greatest offset of a set of offsets
Greatest(S) == CHOOSE m \in S : \A n \in S : m >= n

\* the offsets at which the bytes of the query occur in the buffer
QueryOccurrences ==
    {m \in 0..Len(document.data) :
         OccursAt(document.data, search_query_to_bytes(App), m)}

\* C32: find-next with a non-empty query goes to the first occurrence at an
\* offset >= cursor+1 ("Found at"); when there is none, to the first
\* occurrence in the buffer, which then lies before cursor+1 ("Wrapped, found
\* at"); so whenever the pattern occurs in the buffer the cursor ends on an
\* occurrence and "Not found" is not reported; when the pattern does not
\* occur the cursor is unchanged and "Not found" is reported. The buffer is
\* unchanged.
C32_FindNextWrapsToFirst ==
    (search_query # <<>> /\ ~should_quit) =>
        \A after \in {execute(App, <<"SearchNext">>, EnvOk),
                      handle_search_key(App, Ctrl("s"))} :
            LET all   == QueryOccurrences
                ahead == {m \in all : m >= cursor + 1}
            IN  /\ after.document = document
                /\ IF ahead # {}
                   THEN /\ after.cursor = Least(ahead)
                        /\ after.status_message = Some(<<"Found at", after.cursor>>)
                   ELSE IF all # {}
                   THEN /\ after.cursor = Least(all)
                        /\ after.cursor < cursor + 1
                        /\ after.status_message = Some(<<"Wrapped, found at", after.cursor>>)
                   ELSE /\ after.cursor = cursor
                        /\ after.status_message = Some(<<"Not found">>)
                /\ all # {} => after.cursor \in all

\* C-s from the last 'g' of "gag" wrapped to the 'g' at offset 0
C32_Witness ==
    /\ search_mode
    /\ document.data = Str(<<"g", "a", "g">>)
    /\ search_query = Str(<<"g">>)
    /\ cursor = 0
    /\ status_message = Some(<<"Wrapped, found at", 0>>)

\* C33: find-previous with a non-empty query of n bytes goes to the last
\* occurrence that ends at or before the cursor ("Found at"); when there is
\* none, to the last occurrence in the buffer if its offset is strictly
\* greater than the cursor ("Wrapped, found at"); otherwise, the last
\* occurrence being at the cursor or starting before it and reaching past it,
\* or there being none, the cursor stays and "Not found" is reported. The
\* buffer is unchanged.
C33_FindPrevWrapsStrictlyAfter ==
    (search_query # <<>> /\ ~should_quit) =>
        \A after \in {execute(App, <<"SearchPrev">>, EnvOk),
                      handle_search_key(App, Ctrl("r"))} :
            LET all    == QueryOccurrences
                n      == Len(search_query_to_bytes(App))
                before == {m \in all : m + n <= cursor}
            IN  /\ after.document = document
                /\ IF before # {}
                   THEN /\ after.cursor = Greatest(before)
                        /\ after.status_message = Some(<<"Found at", after.cursor>>)
                   ELSE IF all # {} /\ Greatest(all) > cursor
                   THEN /\ after.cursor = Greatest(all)
                        /\ after.status_message = Some(<<"Wrapped, found at", after.cursor>>)
                   ELSE /\ after.cursor = cursor
                        /\ after.status_message = Some(<<"Not found">>)

\* C-r with the cursor on the only 'a' of "gag": not found
C33_Witness ==
    /\ search_mode
    /\ document.data = Str(<<"g", "a", "g">>)
    /\ search_query = Str(<<"a">>)
    /\ cursor = 1
    /\ status_message = Some(<<"Not found">>)

----------------------------------------------------------------------------
(* A Document opened from a file, mutated, undone, redone and saved; mark  *)
(* holds what the file holds: the Document as loaded, then as last written. *)

InitDisk ==
    /\ \E bytes \in PosContents : document = Document_open(Some(Str(<<"f">>)), bytes)
    /\ InitApp
    /\ call = NoCall
    /\ pre = Document_new
    /\ phase = "free"
    /\ mark = document
    /\ n_seq = 0 /\ n_rec = 0 /\ n_undo = 0 /\ n_redo = 0

\* save(): a successful save writes the bytes to the file
DiskSave(io_ok) ==
    LET r == Document_save(document, io_ok) IN
    /\ Observed("save", <<>>, r)
    /\ mark' = IF r.res = <<"Ok">> THEN r.doc ELSE mark
    /\ UNCHANGED <<appVars, phase, n_seq, n_rec, n_undo, n_redo>>

NextDisk ==
    \/ \E pos \in PosArgs : PosSet(pos)
    \/ \E pos \in PosArgs : PosInsert(pos)
    \/ \E pos \in PosArgs : PosDelete(pos)
    \/ PosUndo
    \/ PosRedo
    \/ \E io_ok \in BOOLEAN : DiskSave(io_ok)

SpecDisk == InitDisk /\ [][NextDisk]_vars

----------------------------------------------------------------------------
(* Claims about the file and the modified flag, checked under SpecDisk.    *)

\* C35: whenever the bytes of the buffer differ from the bytes last written
\* by a successful save, or from the bytes loaded when nothing was saved,
\* is_modified() is true, and so Quit and KillBuffer ask for confirmation
\* instead of quitting or clearing the buffer.
C35_ModifiedCoversUnsavedBytes ==
    document.data # mark.data =>
        /\ Document_is_modified(document)
        /\ ~execute(App, <<"Quit">>, EnvOk).should_quit
        /\ execute(App, <<"KillBuffer">>, EnvOk).document = document

----------------------------------------------------------------------------
(* Claims about a half-entered byte, checked under SpecEdit.               *)

\* C36: whenever the hex entry state is HexFirstDigit(d), the cursor is on a
\* byte of the buffer and the high nibble of that byte is d, so that the
\* second digit completes the byte the first digit wrote.
C36_FirstNibbleStaysUnderCursor ==
    input_state[1] = "HexFirstDigit" =>
        /\ cursor < Len(document.data)
        /\ document.data[cursor + 1] \div 16 = input_state[2]

----------------------------------------------------------------------------
(* Claims about the input lines of the modes, checked under SpecModes.     *)

\* the pattern or the replacement of a query-replace, a prompt or a
\* confirmation is waiting for input
InputLineOpen ==
    /\ ~should_quit /\ ~search_mode
    /\ \/ replace_mode \in {"EnteringSearch", "EnteringReplace"}
       \/ replace_mode = "Off" /\ prompt_mode # "Off"
       \/ replace_mode = "Off" /\ confirm_mode # <<"Off">>

\* the input events of the modes: the keys of text entry and of answers, and
\* a pasted text
InputLineEvents ==
    {<<"Key", key>> : key \in ModeEntryKeys \cup ModeAnswerKeys}
        \cup {<<"Paste", Str(<<"g">>)>>}

\* C37: while the pattern or the replacement of a query-replace is typed, or
\* a prompt or a confirmation is open, no key and no paste changes the bytes
\* of the buffer or the undo log.
C37_InputLinesKeepBuffer ==
    InputLineOpen =>
        \A event \in InputLineEvents, env \in {EnvOk, EnvFail} :
            LET after == handle_event(App, event, env) IN
            /\ after.document.data = document.data
            /\ after.document.undo_stack = document.undo_stack

----------------------------------------------------------------------------
(* A Document whose readonly flag is set and cleared between the calls.    *)

\* set_readonly(readonly)
LockSetReadonly(readonly) ==
    /\ Observed("set_readonly", <<readonly>>, Document_set_readonly(document, readonly))
    /\ UNCHANGED <<appVars, phase, mark, n_seq, n_rec, n_undo, n_redo>>

NextLock ==
    \/ \E pos \in PosArgs : PosSet(pos)
    \/ \E pos \in PosArgs : PosInsert(pos)
    \/ \E pos \in PosArgs : PosDelete(pos)
    \/ PosUndo
    \/ PosRedo
    \/ \E readonly \in BOOLEAN : LockSetReadonly(readonly)

SpecLock == InitPos /\ [][NextLock]_vars

----------------------------------------------------------------------------
(* Claims about the readonly flag, checked under SpecLock.                 *)

\* the calls that change bytes
MutatingCalls == {"set", "insert", "delete", "undo", "redo"}

\* C38: a Document whose readonly flag is set is not mutated: a call of set,
\* insert, delete, undo or redo made while is_readonly() is true leaves the
\* bytes as they were, and so do byte entry and paste in the controller.
C38_ReadonlyBufferKeepsBytes ==
    /\ (call # NoCall /\ call[1] \in MutatingCalls /\ Document_is_readonly(pre)) =>
           document.data = pre.data
    /\ Document_is_readonly(document) =>
           /\ execute(App, <<"InputHex", Ch("4")>>, EnvOk).document.data = document.data
           /\ paste_from_terminal(App, Str(<<"g">>)).document.data = document.data

----------------------------------------------------------------------------
(* Claims about the logs and the bytes, checked under SpecPos.             *)

\* undo() of op addresses only positions of data: Set writes at pos,
\* Insert removes at pos, Delete inserts at pos
UndoFits(data, op) ==
    IF op[1] = "Delete" THEN op[2] <= Len(data) ELSE op[2] < Len(data)

\* redo() of op addresses only positions of data: Set writes at pos,
\* Insert inserts at pos, Delete removes at pos
RedoFits(data, op) ==
    IF op[1] = "Insert" THEN op[2] <= Len(data) ELSE op[2] < Len(data)

\* C39: in every state of a Document reached by set, insert, delete, undo
\* and redo, the operation on top of the undo log can be inverted and the
\* operation on top of the redo log re-applied without addressing a position
\* outside the bytes.
C39_LogsFitTheBytes ==
    /\ document.undo_stack # <<>> => UndoFits(document.data, VecLast(document.undo_stack))
    /\ document.redo_stack # <<>> => RedoFits(document.data, VecLast(document.redo_stack))

\* the last byte of [0, 0] was set to 0x41 and deleted and the delete
\* undone: both logs hold an operation at the last offset
C39_Witness ==
    /\ document.data = <<0, 65>>
    /\ document.undo_stack = <<<<"Set", 1, 0, 65>>>>
    /\ document.redo_stack = <<<<"Delete", 1, 65>>>>

----------------------------------------------------------------------------
(* Claims about the direction of query-replace, checked under SpecSubst.   *)

\* the answers that go on with the query-replace
WalkKeys == {Plain(CharCode("y")), Plain(CharCode("n")), Plain(CharCode("!"))}

\* most answers given in a row
MaxAnswers == 3

\* the state after the answers given one after the other, as long as the
\* query-replace is asking
RECURSIVE Answered(_, _)
Answered(a, keys) ==
    IF keys = <<>> \/ a.replace_mode # "Confirming" THEN a
    ELSE Answered(handle_event(a, <<"Key", Head(keys)>>, EnvOk), Tail(keys))

\* C40: query-replace does not wrap around: from a state in which it asks
\* about the match at the cursor, through every sequence of the answers 'y',
\* 'n' and '!' the cursor never moves back and every byte at an offset below
\* that cursor keeps its value, so no occurrence before it is visited or
\* replaced.
C40_QueryReplaceNeverWraps ==
    (~search_mode /\ replace_mode = "Confirming") =>
        \A keys \in SeqsUpTo(WalkKeys, MaxAnswers) :
            LET after == Answered(App, keys) IN
            /\ after.cursor >= cursor
            /\ Len(after.document.data) >= cursor
            /\ SubSeq(after.document.data, 1, cursor) = SubSeq(document.data, 1, cursor)

\* a second query-replace, "h" by "g", begun at offset 2 of "hhgh" and
\* answered with '!': the 'h' at offsets 0 and 1 are as they were
C40_Witness ==
    /\ replace_mode = "Off"
    /\ search_query = Str(<<"h">>)
    /\ replace_with = Str(<<"g">>)
    /\ document.data = Str(<<"h", "h", "g", "g">>)
    /\ status_message = Some(<<"Replaced occurrences", 1>>)

====
